---------------------------- MODULE Spec2Model ----------------------------
(***************************************************************************)
(* Model of the meeting store and its HTTP routes in lazy-devs-mvp:        *)
(*   - lib/firebase-admin  (saveMeetingToDB, updateMeetingSpeakers)        *)
(*   - app/api/meetings  POST, app/api/meetings/[meetingId]  PATCH         *)
(*   - app/api/meetings/[meetingId]/generate-actions  POST                 *)
(*   - app/api/transcribe-meeting  POST, app/api/teams/[teamId]/voiceprints*)
(*   - the upload dialog's handleUpload                                    *)
(* JavaScript values are modelled as follows: an object used as a map is a *)
(* function whose DOMAIN is its key set; a missing property reads as       *)
(* Undefined; the empty string and Undefined are falsy.                    *)
(***************************************************************************)
EXTENDS Integers, Sequences, FiniteSets, TLC

VARIABLES
    meetings,     \* Firestore collection 'meetings': meetingId -> document
    response,     \* the last HTTP response a route produced
    teams,        \* Firestore collection 'teams': teamId -> document
    env,          \* process.env of the server
    agentCall,    \* the call to the actions microservice made by the last request
    failures,     \* number of generate-actions requests that failed so far
    users,        \* Firestore collection 'users', in document order
    upload,       \* state of the upload dialog and of its handleUpload
    transcribeCall, \* the call to the transcription service made by the last request
    pipeline,     \* one run of a stage of the pipeline of the transcription service
    patches,      \* the PATCH requests in flight for one meeting
    page,         \* the state of the meeting detail page in one browser
    inbox         \* a request that has arrived at the transcribe route

vars == <<meetings, response, teams, env, agentCall, failures,
          users, upload, transcribeCall, pipeline, patches, page,
          inbox>>

----------------------------------------------------------------------------
(* Bounds of the model *)

MaxSegments == 2      \* longest transcript the pipeline returns
MaxFailures == 2      \* failed requests are counted up to this number
MaxSpans == 2         \* most diarization spans and transcript segments of a run

----------------------------------------------------------------------------
(* JavaScript values *)

Undefined == "<undefined>"

\* obj[key] on a plain object
Get(obj, key) == IF key \in DOMAIN obj THEN obj[key] ELSE Undefined

\* truthiness of a string-or-undefined value
Truthy(v) == v # Undefined /\ v # ""

\* a || b
Or(a, b) == IF Truthy(a) THEN a ELSE b

\* { ...base, ...patch }: the properties of patch override those of base
Merge(base, patch) ==
    [k \in DOMAIN base \cup DOMAIN patch |->
        IF k \in DOMAIN patch THEN patch[k] ELSE base[k]]

\* the empty object {} (and the empty array [])
EmptyObject == <<>>

\* JSON values whose type the routes test.  A string is the sequence of the
\* chunks of its text (see the actions route below); the empty string is <<>>.
JValue(type, props, items, text, num) ==
    [type |-> type, props |-> props, items |-> items, text |-> text, num |-> num]

JObject(props) == JValue("object", props, <<>>, <<>>, 0)
JArray(items)  == JValue("array", EmptyObject, items, <<>>, 0)
JString(text)  == JValue("string", EmptyObject, <<>>, text, 0)
JNumber(n)     == JValue("number", EmptyObject, <<>>, <<>>, n)
JNull          == JValue("null", EmptyObject, <<>>, <<>>, 0)
JMissing       == JValue("undefined", EmptyObject, <<>>, <<>>, 0)

\* !!v
JsTruthy(v) ==
    CASE v.type \in {"undefined", "null"} -> FALSE
      [] v.type = "string" -> v.text # <<>>
      [] v.type = "number" -> v.num # 0
      [] OTHER -> TRUE

Falsy(v) == ~JsTruthy(v)

\* v?.name
Prop(v, name) ==
    IF v.type = "object" /\ name \in DOMAIN v.props THEN v.props[name] ELSE JMissing

\* a || b on JSON values
JOr(a, b) == IF JsTruthy(a) THEN a ELSE b

Range(f) == {f[x] : x \in DOMAIN f}

----------------------------------------------------------------------------
(* The values the model draws its inputs from *)

Labels == {"Speaker 1", "Speaker 2"}      \* synthetic cluster labels
Names  == {"Ann", "Bob"}                  \* enrolled display names
MeetingIds == {"m1"}                      \* ids Firestore hands out
TeamIds == {"team1"}

\* keys and values a PATCH body's speakerResolutions may carry
ResolutionKeys   == Labels \cup {"Ann"}
ResolutionValues == Names \cup {""}

ResolutionMaps ==
    UNION {[ks -> ResolutionValues] : ks \in SUBSET ResolutionKeys}

TextAt(i) == IF i % 2 = 1 THEN "hello" ELSE "ok"

SnippetOf(label) == IF label = "Speaker 1" THEN "b64-1" ELSE "b64-2"

\* a transcript whose i-th utterance is spoken by sp[i]; utterances start one
\* after the other, and the first one ends at firstEnd
TranscriptOf(sp, firstEnd) ==
    [i \in 1..Len(sp) |->
        [speaker  |-> sp[i],
         text     |-> TextAt(i),
         start_ms |-> i - 1,
         end_ms   |-> IF i = 1 THEN firstEnd ELSE i]]

SpeakersOf(transcript) == {transcript[i].speaker : i \in DOMAIN transcript}

LabelsOf(unresolved) == {unresolved[i].label : i \in DOMAIN unresolved}

Injective(f) == \A a, b \in DOMAIN f : f[a] = f[b] => a = b

\* every order in which the labels of a set can be listed
Orderings(S) ==
    {s \in [1..Cardinality(S) -> S] : Injective(s)}

\* MeetingResult values of the transcription service (spec section 3): every
\* label of the transcript is a key of speaker_map or the label of exactly one
\* unresolved entry, never both, and speaker_map is injective
PipelineResults ==
    UNION {
      UNION {
        UNION {
          { [transcript          |-> TranscriptOf(sp, firstEnd),
             speaker_map         |-> sm,
             unresolved_speakers |-> [i \in DOMAIN ord |->
                                        [label |-> ord[i],
                                         audio_snippet_b64 |-> SnippetOf(ord[i])]]]
            : ord \in Orderings(Range(sp) \ DOMAIN sm) }
          : sm \in {m \in UNION {[ks -> Names] : ks \in SUBSET Range(sp)} :
                       Injective(m)} }
        : firstEnd \in {1, Len(sp) + 1} }
      : sp \in UNION {[1..n -> Labels] : n \in 1..MaxSegments} }

----------------------------------------------------------------------------
(* lib/firebase-admin: the meeting documents *)

Null == "<null>"

\* meetingData.transcript[length - 1].end_ms, or 0 for an empty transcript
durationMs(transcript) ==
    IF Len(transcript) > 0 THEN transcript[Len(transcript)].end_ms ELSE 0

\* the document saveMeetingToDB writes for meetingData under a fresh id
\* (createdAt and updatedAt are server timestamps and are left out)
meetingDocument(meetingId, meetingData) ==
    [id                 |-> meetingId,
     teamId             |-> meetingData.teamId,
     title              |-> meetingData.meetingTitle,
     transcript         |-> meetingData.transcript,
     speakerMap         |-> meetingData.speakerMap,
     unresolvedSpeakers |-> meetingData.unresolvedSpeakers,
     uploadedBy         |-> Or(meetingData.uploadedBy, Null),
     totalSegments      |-> Len(meetingData.transcript),
     totalSpeakers      |-> Cardinality(DOMAIN meetingData.speakerMap),
     unresolvedCount    |-> Len(meetingData.unresolvedSpeakers),
     durationMs         |-> durationMs(meetingData.transcript)]

\* transcript.map(segment => ({...segment,
\*     speaker: speakerResolutions[segment.speaker] || segment.speaker}))
updatedTranscript(transcript, speakerResolutions) ==
    [i \in DOMAIN transcript |->
        [transcript[i] EXCEPT
            !.speaker = Or(Get(speakerResolutions, transcript[i].speaker),
                           transcript[i].speaker)]]

\* {...speakerMap} with updatedSpeakerMap[oldLabel] = speakerResolutions[oldLabel]
\* for every key of speakerResolutions
updatedSpeakerMap(speakerMap, speakerResolutions) ==
    Merge(speakerMap, speakerResolutions)

\* a filter that empties the list whenever anything is resolved
updatedUnresolvedSpeakers_clearsAll(unresolvedSpeakers, speakerResolutions) ==
    IF speakerResolutions = EmptyObject THEN unresolvedSpeakers ELSE <<>>

\* unresolvedSpeakers.filter(speaker => !speakerResolutions[speaker.label])
updatedUnresolvedSpeakers(unresolvedSpeakers, speakerResolutions) ==
    LET keep(speaker) == ~Truthy(Get(speakerResolutions, speaker.label))
    IN  SelectSeq(unresolvedSpeakers, keep)

\* an update that writes the three fields and leaves the stored count alone
speakerUpdate_keepsCount(meetingData, speakerResolutions) ==
    [transcript         |-> updatedTranscript(meetingData.transcript,
                                              speakerResolutions),
     speakerMap         |-> updatedSpeakerMap(meetingData.speakerMap,
                                              speakerResolutions),
     unresolvedSpeakers |-> updatedUnresolvedSpeakers(
                                meetingData.unresolvedSpeakers, speakerResolutions)]

\* the fields updateMeetingSpeakers passes to meetingRef.update
speakerUpdate(meetingData, speakerResolutions) ==
    LET unresolved == updatedUnresolvedSpeakers(meetingData.unresolvedSpeakers,
                                                speakerResolutions)
    IN  [transcript         |-> updatedTranscript(meetingData.transcript,
                                                  speakerResolutions),
         speakerMap         |-> updatedSpeakerMap(meetingData.speakerMap,
                                                  speakerResolutions),
         unresolvedSpeakers |-> unresolved,
         unresolvedCount    |-> Len(unresolved)]

\* the document after updateMeetingSpeakers: Firestore's update replaces the
\* named fields and keeps the others
updateMeetingSpeakers(meetingData, speakerResolutions) ==
    Merge(meetingData, speakerUpdate(meetingData, speakerResolutions))

----------------------------------------------------------------------------
(* The routes of the store *)

Respond(route, status, body) == [route |-> route, status |-> status, body |-> body]

NoResponse == Respond("none", 0, EmptyObject)

\* selectedFile === null
NoFile == [name |-> "", size |-> 0]

\* the upload dialog before and after an upload
UploadIdle ==
    [pc            |-> "idle",
     isProcessing  |-> FALSE,
     error         |-> Null,
     selectedFile  |-> NoFile,
     meetingTitle  |-> "",
     teamId        |-> "",
     voiceprints   |-> EmptyObject,
     processedData |-> EmptyObject,
     navigatedTo   |-> Null]

\* no request has arrived at the transcribe route
NoInbox == [version |-> "", form |-> EmptyObject, served |-> FALSE]

\* the meeting detail page is not open
PageUnmounted ==
    [version |-> "", pc |-> "unmounted", meeting |-> EmptyObject,
     isGenerating |-> FALSE, error |-> Null, snapshotPending |-> FALSE,
     completed |-> FALSE]

\* no PATCH request is in flight
NoPatches == [base |-> EmptyObject, calls |-> <<>>]

\* no request has been sent to the service
NotCalled == [called |-> FALSE, request |-> EmptyObject, outcome |-> EmptyObject]

\* the request body the upload dialog sends to POST /api/meetings for a
\* result r of the pipeline
SaveBody(teamId, title, r) ==
    [teamId             |-> teamId,
     meetingTitle       |-> title,
     transcript         |-> r.transcript,
     speakerMap         |-> r.speaker_map,
     unresolvedSpeakers |-> r.unresolved_speakers,
     uploadedBy         |-> "user1"]

\* the POST /api/meetings requests the model issues: every result of the
\* pipeline, and one request for each way the route fails
SaveRequests ==
    {[body |-> SaveBody("team1", "Standup", r), storeOk |-> TRUE]
        : r \in PipelineResults}
    \cup {[body |-> SaveBody("team1", title, r), storeOk |-> ok]
        : title \in {"", "Standup"}, ok \in {FALSE},
          r \in {x \in PipelineResults :
                    Len(x.transcript) = 1 /\ x.transcript[1].end_ms = 1
                    /\ x.speaker_map = EmptyObject}}

\* POST /api/meetings
POST_meetings(body, storeOk) ==
    IF ~Truthy(Get(body, "teamId")) \/ ~Truthy(Get(body, "meetingTitle"))
          \/ "transcript" \notin DOMAIN body
    THEN /\ response' = Respond("POST /api/meetings", 400,
               [error |-> "Missing required fields: teamId, meetingTitle, transcript"])
         /\ UNCHANGED meetings
    ELSE IF Len(body.transcript) = 0
    THEN /\ response' = Respond("POST /api/meetings", 400,
               [error |-> "Transcript must be a non-empty array"])
         /\ UNCHANGED meetings
    ELSE IF ~storeOk
    THEN /\ response' = Respond("POST /api/meetings", 500,
               [error |-> "Failed to save meeting"])
         /\ UNCHANGED meetings
    ELSE \E meetingId \in MeetingIds \ DOMAIN meetings :
         LET meetingData ==
                [teamId             |-> body.teamId,
                 meetingTitle       |-> body.meetingTitle,
                 transcript         |-> body.transcript,
                 speakerMap         |-> IF "speakerMap" \in DOMAIN body
                                        THEN body.speakerMap ELSE EmptyObject,
                 unresolvedSpeakers |-> IF "unresolvedSpeakers" \in DOMAIN body
                                        THEN body.unresolvedSpeakers ELSE EmptyObject,
                 uploadedBy         |-> Get(body, "uploadedBy")]
         IN  /\ meetings' = Merge(meetings,
                    (meetingId :> meetingDocument(meetingId, meetingData)))
             /\ response' = Respond("POST /api/meetings", 200,
                    [success |-> "true", meetingId |-> meetingId])

\* PATCH /api/meetings/[meetingId]
PATCH_meeting(meetingId, speakerResolutions, storeOk) ==
    IF Falsy(speakerResolutions) \/ speakerResolutions.type \notin {"object", "array"}
    THEN /\ response' = Respond("PATCH /api/meetings/[meetingId]", 400,
               [error |-> "speakerResolutions object is required"])
         /\ UNCHANGED meetings
    ELSE IF meetingId \notin DOMAIN meetings \/ ~storeOk
    THEN /\ response' = Respond("PATCH /api/meetings/[meetingId]", 500,
               [error   |-> "Failed to update speakers",
                details |-> "Failed to update meeting speakers"])
         /\ UNCHANGED meetings
    ELSE /\ meetings' = [meetings EXCEPT ![meetingId] =
               updateMeetingSpeakers(@, speakerResolutions.props)]
         /\ response' = Respond("PATCH /api/meetings/[meetingId]", 200,
               [success |-> "true", message |-> "Speakers updated successfully"])

\* the PATCH requests the model issues: every resolution map for a stored
\* meeting, and one request for each way the route fails
PatchRequests ==
    {[meetingId |-> "m1", speakerResolutions |-> JObject(r), storeOk |-> TRUE]
        : r \in ResolutionMaps}
    \cup {[meetingId |-> "m1", speakerResolutions |-> sr, storeOk |-> TRUE]
        : sr \in {JMissing, JString(<<"Ann">>)}}
    \cup {[meetingId |-> "missing",
           speakerResolutions |-> JObject([l \in {"Speaker 1"} |-> "Ann"]),
           storeOk |-> TRUE],
          [meetingId |-> "m1",
           speakerResolutions |-> JObject([l \in {"Speaker 1"} |-> "Ann"]),
           storeOk |-> FALSE]}

----------------------------------------------------------------------------
(* POST /api/meetings/[meetingId]/generate-actions *)

\* The text of a string the microservice returns is a sequence of chunks: a
\* code fence (``` followed by a language word, possibly none), the JSON text
\* of a value, or prose that is no JSON.
Fence(lang)  == [kind |-> "fence", lang |-> lang, value |-> JNull]
JsonText(v)  == [kind |-> "json", lang |-> "", value |-> v]
Prose(word)  == [kind |-> "prose", lang |-> word, value |-> JNull]

\* cleanedResponse.replace(/```\s*$/i, '')
stripClosingFence(text) ==
    IF text # <<>> /\ text[Len(text)] = Fence("")
    THEN SubSeq(text, 1, Len(text) - 1) ELSE text

\* the markdown clean-up of the route: a leading ```json fence is removed with
\* its language word, any other leading ``` loses only the backticks
cleanedResponse(text) ==
    IF text # <<>> /\ text[1] = Fence("json")
    THEN stripClosingFence(Tail(text))
    ELSE IF text # <<>> /\ text[1].kind = "fence"
    THEN stripClosingFence(
            (IF text[1].lang = "" THEN <<>> ELSE <<Prose(text[1].lang)>>)
                \o Tail(text))
    ELSE text

\* JSON.parse: succeeds on the JSON text of exactly one value
CanParse(text) == Len(text) = 1 /\ text[1].kind = "json"
JSONparse(text) == text[1].value

\* agentData?.actions || agentData?.ai_response || agentData
extractedActions(agentData) ==
    JOr(JOr(Prop(agentData, "actions"), Prop(agentData, "ai_response")), agentData)

\* the parsing step fails: the extracted value is a string that is no JSON
parseFails(agentData) ==
    LET actions == extractedActions(agentData)
    IN  actions.type = "string" /\ ~CanParse(cleanedResponse(actions.text))

\* the value after the parsing step
parsedActions(agentData) ==
    LET actions == extractedActions(agentData)
    IN  IF actions.type = "string"
        THEN JSONparse(cleanedResponse(actions.text))
        ELSE actions

\* if (!Array.isArray(actions)) actions = [actions]
ensureArray(actions) ==
    IF actions.type = "array" THEN actions ELSE JArray(<<actions>>)

\* decrypt of lib/encryption: the token must have the form iv:ciphertext
decryptFails(encryptedToken) == encryptedToken \notin {"iv:cipher"}
decrypt(encryptedToken) == "clickup-token"

\* transcriptArray.map(t => `${t.speaker}: ${t.text}`).join('\n')
fullTranscriptText(transcriptArray) ==
    [i \in DOMAIN transcriptArray |->
        <<transcriptArray[i].speaker, transcriptArray[i].text>>]

GenerateRoute == "POST /api/meetings/[meetingId]/generate-actions"

\* a default that puts one empty utterance in place of a missing transcript
transcriptArrayOf_placeholder(meetingData) ==
    IF "transcript" \in DOMAIN meetingData /\ Len(meetingData.transcript) > 0
    THEN meetingData.transcript
    ELSE <<[speaker |-> "", text |-> "", start_ms |-> 0, end_ms |-> 0]>>

\* meetingData?.transcript || []
transcriptArrayOf(meetingData) ==
    IF "transcript" \in DOMAIN meetingData THEN meetingData.transcript ELSE <<>>

\* an update that also marks every speaker of the meeting as resolved
actionsUpdate_clearsUnresolved(actions) ==
    [actions |-> actions, status |-> "completed",
     unresolvedSpeakers |-> <<>>, unresolvedCount |-> 0]

\* the fields of meetingRef.update (updatedAt, a timestamp, is left out)
actionsUpdate(actions) ==
    [actions |-> actions, status |-> "completed"]

\* a catch block that also records the failure on the meeting document
catchError_marksMeeting(meetingId, details) ==
    /\ response' = Respond(GenerateRoute, 500,
            [error |-> "Failed to generate actions", details |-> details])
    /\ meetings' = IF meetingId \in DOMAIN meetings
                   THEN [meetings EXCEPT ![meetingId] =
                            Merge(@, [actions |-> JArray(<<>>), status |-> "failed"])]
                   ELSE meetings

\* the catch block of the route: the error is reported with status 500 and
\* the meeting is not written
catchError(meetingId, details) ==
    /\ response' = Respond(GenerateRoute, 500,
            [error |-> "Failed to generate actions", details |-> details])
    /\ UNCHANGED meetings

\* the route; outcome is what the microservice does if it is called, storeOk
\* whether Firestore answers the read and updateOk whether it takes the update
POST_generate_actions(meetingId, outcome, storeOk, updateOk) ==
    IF meetingId = ""
    THEN /\ response' = Respond(GenerateRoute, 400, [error |-> "Meeting ID is required"])
         /\ UNCHANGED meetings
         /\ agentCall' = NotCalled
    ELSE IF ~storeOk
    THEN /\ catchError(meetingId, "store unavailable")
         /\ agentCall' = NotCalled
    ELSE IF meetingId \notin DOMAIN meetings
    THEN /\ response' = Respond(GenerateRoute, 404, [error |-> "Meeting not found"])
         /\ UNCHANGED meetings
         /\ agentCall' = NotCalled
    ELSE
    LET meetingData     == meetings[meetingId]
        teamId          == Get(meetingData, "teamId")
        transcriptArray == transcriptArrayOf(meetingData)
    IN
    IF ~Truthy(teamId)
    THEN /\ response' = Respond(GenerateRoute, 400, [error |-> "Meeting is missing teamId."])
         /\ UNCHANGED meetings
         /\ agentCall' = NotCalled
    ELSE IF Len(transcriptArray) = 0
    THEN /\ response' = Respond(GenerateRoute, 400, [error |-> "Meeting has no transcript data."])
         /\ UNCHANGED meetings
         /\ agentCall' = NotCalled
    ELSE IF teamId \notin DOMAIN teams
    THEN /\ response' = Respond(GenerateRoute, 404, [error |-> "Team not found."])
         /\ UNCHANGED meetings
         /\ agentCall' = NotCalled
    ELSE
    LET teamData       == teams[teamId]
        encryptedToken == Get(teamData, "accessToken")
        clickupSpaceId == Or(Get(teamData, "spaceId"), Get(env, "CLICKUP_SPACE_ID"))
    IN
    IF ~Truthy(encryptedToken)
    THEN /\ response' = Respond(GenerateRoute, 400,
               [error |-> "ClickUp access token is not configured. Please connect ClickUp in team settings."])
         /\ UNCHANGED meetings
         /\ agentCall' = NotCalled
    ELSE IF ~Truthy(clickupSpaceId)
    THEN /\ response' = Respond(GenerateRoute, 400,
               [error |-> "ClickUp space ID is not configured. Please add CLICKUP_SPACE_ID to your environment variables."])
         /\ UNCHANGED meetings
         /\ agentCall' = NotCalled
    ELSE IF decryptFails(encryptedToken)
    THEN /\ catchError(meetingId, "decryption failed")
         /\ agentCall' = NotCalled
    ELSE IF ~Truthy(Get(env, "ACTIONS_SERVICE_URL"))
    THEN /\ catchError(meetingId, "ACTIONS_SERVICE_URL is not configured.")
         /\ agentCall' = NotCalled
    ELSE
    /\ agentCall' = [called  |-> TRUE,
                     request |-> [authorization |-> decrypt(encryptedToken),
                                  space_id      |-> clickupSpaceId,
                                  transcript    |-> fullTranscriptText(transcriptArray)],
                     outcome |-> outcome]
    /\ IF outcome.kind = "networkError"
       THEN catchError(meetingId, "fetch failed")
       ELSE IF outcome.kind = "notOk"
       THEN catchError(meetingId, "Agent Hive service failed")
       ELSE IF outcome.kind = "notJson"
       THEN catchError(meetingId, "Unexpected token in JSON")
       ELSE IF parseFails(outcome.data)
       THEN catchError(meetingId, "Failed to parse AI response as JSON")
       ELSE
       LET actions == ensureArray(parsedActions(outcome.data))
       IN  IF ~updateOk
           THEN catchError(meetingId, "store unavailable")
           ELSE /\ meetings' = [meetings EXCEPT ![meetingId] =
                      Merge(@, actionsUpdate(actions))]
                /\ response' = Respond(GenerateRoute, 200,
                      [success |-> "true", actions |-> actions])

----------------------------------------------------------------------------
(* GET /api/teams/[teamId]/voiceprints and fetchTeamVoiceprints *)

\* floatArrayToBase64: the base64 text of the Float32 bytes of the array
floatArrayToBase64(floatArr) == [base64 |-> floatArr]

\* the map fetchTeamVoiceprints builds: one entry per user of the team whose
\* voiceprint is a non-empty array, keyed by the user's name (of two users
\* with one name the later document wins)
fetchTeamVoiceprints(teamId) ==
    LET enrolled == {u \in DOMAIN users :
                        users[u].teamId = teamId /\ Len(users[u].voiceprint) > 0}
        names    == {users[u].name : u \in enrolled}
        last(n)  == CHOOSE u \in enrolled :
                        /\ users[u].name = n
                        /\ \A v \in enrolled : users[v].name = n => v <= u
    IN  [n \in names |-> floatArrayToBase64(users[last(n)].voiceprint)]

VoiceprintsRoute == "GET /api/teams/[teamId]/voiceprints"

\* the response of the route; storeOk is whether Firestore answers the query
GET_voiceprints(teamId, storeOk) ==
    IF teamId = ""
    THEN Respond(VoiceprintsRoute, 400, [error |-> "Team ID is required"])
    ELSE IF ~storeOk
    THEN Respond(VoiceprintsRoute, 500,
            [error |-> "Failed to fetch voiceprints",
             details |-> "Failed to fetch voiceprints for team"])
    ELSE LET voiceprints == fetchTeamVoiceprints(teamId)
         IN  Respond(VoiceprintsRoute, 200,
                [voiceprints |-> voiceprints,
                 count |-> Cardinality(DOMAIN voiceprints)])

----------------------------------------------------------------------------
(* POST /api/transcribe-meeting *)

\* message.includes(part), a message being the sequence of its words
Includes(message, part) ==
    \E i \in 1..(Len(message) - Len(part) + 1) :
        SubSeq(message, i, i + Len(part) - 1) = part

\* The error fetch rejects with when the signal of AbortSignal.timeout fires.
\* The signal aborts with a DOMException named TimeoutError; a runtime that
\* does not pass the abort reason on rejects with one named AbortError.
TimeoutRejections ==
    {[name |-> "TimeoutError",
      message |-> <<"The", "operation", "was", "aborted", "due", "to", "timeout">>],
     [name |-> "AbortError",
      message |-> <<"This", "operation", "was", "aborted">>]}

\* the error processWithTranscriptionService throws for an outcome of the
\* upstream call that is not a parsed body
thrownByService(outcome) ==
    IF outcome.kind = "notOk"
    THEN [name |-> "Error",
          message |-> <<"Transcription", "service", "failed", "with", "status",
                        outcome.status>> \o outcome.body]
    ELSE IF outcome.kind = "timeout"
    THEN IF outcome.error.name = "AbortError"
         THEN [name |-> "Error",
               message |-> <<"Transcription", "service", "request", "timed", "out",
                             "after", "5", "minutes">>]
         ELSE outcome.error
    ELSE IF outcome.kind = "networkError"
    THEN [name |-> "TypeError", message |-> <<"fetch", "failed">>]
    ELSE [name |-> "SyntaxError", message |-> <<"Unexpected", "token">>]

\* the status code the catch block of the route picks for an error message
statusCode(errorMessage) ==
    IF Includes(errorMessage, <<"timed", "out">>) THEN 504
    ELSE IF Includes(errorMessage, <<"not", "configured">>) THEN 503
    ELSE IF Includes(errorMessage, <<"failed", "with", "status">>) THEN 502
    ELSE 500

TranscribeRoute == "POST /api/transcribe-meeting"

BadRequest(message) == Respond(TranscribeRoute, 400, [message |-> message])

\* a route that takes an empty voiceprint map for a missing one
transcribeRequest_rejectsEmptyMap(form) ==
    IF /\ "audioFile" \in DOMAIN form
       /\ "voiceprints" \in DOMAIN form /\ form.voiceprints # <<>>
       /\ form.audioFile.size # 0
       /\ CanParse(form.voiceprints)
       /\ JSONparse(form.voiceprints).type \in {"object", "array"}
       /\ JSONparse(form.voiceprints).props # EmptyObject
    THEN [called |-> TRUE,
          request |-> [audio_file |-> form.audioFile,
                       enrolled_voiceprints_json |-> form.voiceprints],
          outcome |-> EmptyObject]
    ELSE NotCalled

\* the request the route sends to the transcription service, if it sends one
transcribeRequest(form) ==
    IF /\ "audioFile" \in DOMAIN form
       /\ "voiceprints" \in DOMAIN form /\ form.voiceprints # <<>>
       /\ form.audioFile.size # 0
       /\ CanParse(form.voiceprints)
       /\ JSONparse(form.voiceprints).type \in {"object", "array"}
    THEN [called |-> TRUE,
          request |-> [audio_file |-> form.audioFile,
                       enrolled_voiceprints_json |-> form.voiceprints],
          outcome |-> EmptyObject]
    ELSE NotCalled

\* the response of the route to the form data of a request; outcome is what
\* the transcription service does if it is called
POST_transcribe_meeting(form, outcome) ==
    IF "audioFile" \notin DOMAIN form
    THEN BadRequest("audioFile is required.")
    ELSE IF "voiceprints" \notin DOMAIN form \/ form.voiceprints = <<>>
    THEN BadRequest("voiceprints are required.")
    ELSE IF form.audioFile.size = 0
    THEN BadRequest("Audio file is empty.")
    ELSE IF \/ ~CanParse(form.voiceprints)
            \/ JSONparse(form.voiceprints).type \notin {"object", "array"}
    THEN BadRequest("Invalid voiceprints JSON format.")
    ELSE IF outcome.kind = "ok"
    THEN Respond(TranscribeRoute, 200, outcome.data)
    ELSE LET errorMessage == thrownByService(outcome).message
         IN  Respond(TranscribeRoute, statusCode(errorMessage),
                [message |-> "An internal server error occurred.",
                 error   |-> errorMessage])

\* The route as src/app/api/transcribe-meeting/route.ts has it: one check of
\* the two fields, no check of the file's size or of the voiceprints' type,
\* no timeout on the upstream call, and status 500 for every failure.

\* the error its processWithTranscriptionService throws; without a signal the
\* upstream call that gets no answer ends when the HTTP client gives up
thrownByPlainService(outcome) ==
    IF outcome.kind = "notOk"
    THEN [name |-> "Error",
          message |-> <<"Transcription", "service", "failed", "with", "status",
                        outcome.status>>]
    ELSE IF outcome.kind \in {"timeout", "networkError"}
    THEN [name |-> "TypeError", message |-> <<"fetch", "failed">>]
    ELSE [name |-> "SyntaxError", message |-> <<"Unexpected", "token">>]

\* the request it sends to the transcription service, if it sends one
plainTranscribeRequest(form) ==
    IF /\ "audioFile" \in DOMAIN form
       /\ "voiceprints" \in DOMAIN form /\ form.voiceprints # <<>>
       /\ CanParse(form.voiceprints)
    THEN [called |-> TRUE,
          request |-> [audioFile |-> form.audioFile,
                       enrolled_voiceprints_json |-> form.voiceprints],
          outcome |-> EmptyObject]
    ELSE NotCalled

\* its response
POST_transcribe_meeting_plain(form, outcome) ==
    LET failed(errorMessage) ==
            Respond(TranscribeRoute, 500,
                [message |-> "An internal server error occurred.",
                 error   |-> errorMessage])
    IN  IF \/ "audioFile" \notin DOMAIN form
           \/ "voiceprints" \notin DOMAIN form \/ form.voiceprints = <<>>
        THEN BadRequest("audioFile and voiceprints are required.")
        ELSE IF ~CanParse(form.voiceprints)
        THEN failed(<<"Unexpected", "token">>)
        ELSE IF outcome.kind = "ok"
        THEN Respond(TranscribeRoute, 200, outcome.data)
        ELSE failed(thrownByPlainService(outcome).message)

\* the two versions of the route the repository holds
TranscribeVersions == {"checked", "plain"}

transcribeRequestOf(version, form) ==
    IF version = "plain" THEN plainTranscribeRequest(form) ELSE transcribeRequest(form)

transcribeResponseOf(version, form, outcome) ==
    IF version = "plain"
    THEN POST_transcribe_meeting_plain(form, outcome)
    ELSE POST_transcribe_meeting(form, outcome)

----------------------------------------------------------------------------
(* The Segment Aligner of the transcription service (spec section 4.4).    *)
(* The service is not among the sources; the aligner is modelled from its  *)
(* contract as a scan of the spans for each segment.                       *)

\* times of a run, in units of the shortest interval
MaxTime == MaxSpans + 1

Intervals == {iv \in (0..MaxTime) \X (0..MaxTime) : iv[1] < iv[2]}

\* TranscriptSegment sequences: ordered by start_ms, not overlapping, each
\* with its own text
TranscriptSegments ==
    UNION {
      { [i \in 1..n |-> [text |-> i, start_ms |-> iv[i][1], end_ms |-> iv[i][2]]]
        : iv \in {f \in [1..n -> Intervals] :
                    \A i \in 1..(n - 1) : f[i][2] <= f[i + 1][1]} }
      : n \in 0..MaxSpans }

\* DiarizationSpan sequences: ordered by start_ms; spans of different
\* clusters may overlap
DiarizationSpans ==
    UNION {
      { [i \in 1..n |-> [cluster_id |-> c[i],
                         start_ms |-> iv[i][1], end_ms |-> iv[i][2]]]
        : iv \in {f \in [1..n -> Intervals] :
                    \A i \in 1..(n - 1) : f[i][1] <= f[i + 1][1]},
          c \in [1..n -> Labels] }
      : n \in 0..MaxSpans }

Min2(a, b) == IF a <= b THEN a ELSE b
Max2(a, b) == IF a >= b THEN a ELSE b

\* min(seg.end, span.end) - max(seg.start, span.start)
overlap(seg, span) ==
    Min2(seg.end_ms, span.end_ms) - Max2(seg.start_ms, span.start_ms)

\* a scan that lets a later span of equal overlap replace the best one
bestSpan_lastWins(seg, spans, k, best) ==
    IF k > Len(spans) THEN best
    ELSE IF overlap(seg, spans[k]) > 0
            /\ (best = 0 \/ overlap(seg, spans[k]) >= overlap(seg, spans[best]))
    THEN k
    ELSE best

\* one step of the scan of the spans for a segment: span k replaces the best
\* span so far if it overlaps the segment by more (0: no span overlaps yet)
bestSpan(seg, spans, k, best) ==
    IF k > Len(spans) THEN best
    ELSE IF overlap(seg, spans[k]) > 0
            /\ (best = 0 \/ overlap(seg, spans[k]) > overlap(seg, spans[best]))
    THEN k
    ELSE best

\* the scan of all spans, in their order
RECURSIVE scanSpans(_, _, _, _)
scanSpans(seg, spans, k, best) ==
    IF k > Len(spans) THEN best
    ELSE scanSpans(seg, spans, k + 1, bestSpan(seg, spans, k, best))

\* a segment that overlaps no span continues the gap region of the segment
\* before it if that one overlapped no span either and no span lies between
sameGapRegion(segments, spans, utterances, i) ==
    /\ i > 1
    /\ utterances[i - 1].gap
    /\ \A k \in DOMAIN spans :
          ~ ( /\ spans[k].start_ms >= segments[i - 1].end_ms
              /\ spans[k].end_ms <= segments[i].start_ms )

\* the reserved cluster_id "Unknown Speaker N"
UnknownSpeaker(n) ==
    CASE n = 1 -> "Unknown Speaker 1"
      [] n = 2 -> "Unknown Speaker 2"
      [] n = 3 -> "Unknown Speaker 3"
      [] n = 4 -> "Unknown Speaker 4"
      [] OTHER -> "Unknown Speaker 5"

\* the Utterance of segment i, and the number of gap regions after it
alignSegment(segments, spans, utterances, gaps, i) ==
    LET seg  == segments[i]
        best == scanSpans(seg, spans, 1, 0)
        n    == IF best # 0 THEN gaps
                ELSE IF sameGapRegion(segments, spans, utterances, i) THEN gaps
                ELSE gaps + 1
    IN  [utterance |->
            [speaker_label |-> IF best # 0 THEN spans[best].cluster_id
                               ELSE UnknownSpeaker(n),
             text |-> seg.text, start_ms |-> seg.start_ms, end_ms |-> seg.end_ms,
             gap |-> best = 0],
         gaps |-> n]

\* no run
PipelineIdle ==
    [segments |-> <<>>, spans |-> <<>>, utterances |-> <<>>, gaps |-> 0]

\* the aligner takes the next segment
AlignNext ==
    /\ Len(pipeline.utterances) < Len(pipeline.segments)
    /\ LET i == Len(pipeline.utterances) + 1
           r == alignSegment(pipeline.segments, pipeline.spans,
                             pipeline.utterances, pipeline.gaps, i)
       IN  pipeline' = [pipeline EXCEPT
                           !.utterances = Append(@, r.utterance),
                           !.gaps = r.gaps]
    /\ UNCHANGED <<meetings, response, teams, env, agentCall, failures,
                   users, upload, transcribeCall, patches, page, inbox>>

AlignInit ==
    /\ meetings = EmptyObject
    /\ response = NoResponse
    /\ teams = EmptyObject
    /\ env = EmptyObject
    /\ agentCall = NotCalled
    /\ failures = 0
    /\ users = EmptyObject
    /\ upload = UploadIdle
    /\ transcribeCall = NotCalled
    /\ patches = NoPatches
    /\ page = PageUnmounted
    /\ inbox = NoInbox
    /\ pipeline \in {[segments |-> segs, spans |-> sps, utterances |-> <<>>,
                      gaps |-> 0]
                        : segs \in TranscriptSegments, sps \in DiarizationSpans}

SpecAlign == AlignInit /\ [][AlignNext]_vars

----------------------------------------------------------------------------
(* The Voiceprint Matcher of the transcription service (spec sections 4.5  *)
(* and 9), modelled from its contract: candidate pairs are taken one at a  *)
(* time in descending similarity, and the cluster and the name of a taken  *)
(* pair take no further part.                                              *)

\* the confidence threshold, and the similarities a pair may have
Threshold == 2
Similarities == 0..(Threshold + 1)

\* candidates that leave a matched name in play
candidates_keepsName(similarity, speaker_map) ==
    {p \in DOMAIN similarity :
        /\ similarity[p] >= Threshold
        /\ p[1] \notin DOMAIN speaker_map}

\* the (cluster, name) pairs that may still be taken: at or above the
\* threshold, and neither the cluster nor the name is matched
candidates(similarity, speaker_map) ==
    {p \in DOMAIN similarity :
        /\ similarity[p] >= Threshold
        /\ p[1] \notin DOMAIN speaker_map
        /\ p[2] \notin Range(speaker_map)}

\* no run of the matcher
MatchInputs ==
    UNION { {[similarity |-> sim, clusters |-> Labels, enrolled |-> en,
              speaker_map |-> EmptyObject, unresolved |-> {}, done |-> FALSE]
                : sim \in [Labels \X en -> Similarities]}
            : en \in SUBSET Names }

\* the matcher takes a candidate pair of the highest similarity
MatchNext ==
    /\ ~pipeline.done
    /\ \E p \in candidates(pipeline.similarity, pipeline.speaker_map) :
          /\ \A q \in candidates(pipeline.similarity, pipeline.speaker_map) :
                pipeline.similarity[q] <= pipeline.similarity[p]
          /\ pipeline' = [pipeline EXCEPT
                             !.speaker_map = Merge(@, (p[1] :> p[2]))]
    /\ UNCHANGED <<meetings, response, teams, env, agentCall, failures,
                   users, upload, transcribeCall, patches, page, inbox>>

\* no candidate is left: the clusters without a name are emitted as
\* unresolved
MatchFinish ==
    /\ ~pipeline.done
    /\ candidates(pipeline.similarity, pipeline.speaker_map) = {}
    /\ pipeline' = [pipeline EXCEPT
                       !.unresolved = pipeline.clusters \ DOMAIN pipeline.speaker_map,
                       !.done = TRUE]
    /\ UNCHANGED <<meetings, response, teams, env, agentCall, failures,
                   users, upload, transcribeCall, patches, page, inbox>>

MatchInit ==
    /\ meetings = EmptyObject
    /\ response = NoResponse
    /\ teams = EmptyObject
    /\ env = EmptyObject
    /\ agentCall = NotCalled
    /\ failures = 0
    /\ users = EmptyObject
    /\ upload = UploadIdle
    /\ transcribeCall = NotCalled
    /\ patches = NoPatches
    /\ page = PageUnmounted
    /\ inbox = NoInbox
    /\ pipeline \in MatchInputs

MatchStep == MatchNext \/ MatchFinish

SpecMatch == MatchInit /\ [][MatchStep]_vars

----------------------------------------------------------------------------
(* Specification of the store: a result of the pipeline is saved, then      *)
(* speakers are resolved by any sequence of PATCH requests.                *)

StoreInit ==
    /\ meetings = EmptyObject
    /\ response = NoResponse
    /\ teams = EmptyObject
    /\ env = EmptyObject
    /\ agentCall = NotCalled
    /\ failures = 0
    /\ users = EmptyObject
    /\ upload = UploadIdle
    /\ transcribeCall = NotCalled
    /\ patches = NoPatches
    /\ page = PageUnmounted
    /\ inbox = NoInbox
    /\ pipeline = PipelineIdle

SaveMeeting ==
    /\ \E req \in SaveRequests : POST_meetings(req.body, req.storeOk)
    /\ UNCHANGED <<teams, env, agentCall, failures, users, pipeline, patches,
                   page, inbox, upload, transcribeCall>>

ResolveSpeakers ==
    /\ \E req \in PatchRequests :
          PATCH_meeting(req.meetingId, req.speakerResolutions, req.storeOk)
    /\ UNCHANGED <<teams, env, agentCall, failures, users, pipeline, patches,
                   page, inbox, upload, transcribeCall>>

Init == StoreInit

Next == SaveMeeting \/ ResolveSpeakers

Spec == Init /\ [][Next]_vars

----------------------------------------------------------------------------
(* Specification of action generation: requests to the generate-actions     *)
(* route for a stored meeting, under every configuration of the team and   *)
(* the server and every answer of the microservice.                        *)

JAction(kind) == JObject([type |-> kind])

TwoActions == JArray(<<JAction("create"), JAction("close")>>)

\* bodies the microservice answers with
AgentPayloads ==
    { JObject([actions |-> TwoActions]),
      JObject([actions |-> JArray(<<>>)]),
      JObject([actions |-> JString(<<>>), ai_response |-> TwoActions]),
      JObject([ai_response |-> JString(<<Fence("json"), JsonText(TwoActions), Fence("")>>)]),
      JObject([ai_response |-> JString(<<Fence(""), JsonText(TwoActions), Fence("")>>)]),
      JObject([ai_response |-> JString(<<Fence("JSON"), JsonText(TwoActions), Fence("")>>)]),
      JObject([ai_response |-> JString(<<JsonText(JArray(<<JAction("flag")>>))>>)]),
      JObject([ai_response |-> JString(<<Prose("Sure"), JsonText(TwoActions)>>)]),
      JObject([ai_response |-> JString(<<JsonText(JAction("create"))>>)]),
      JObject([ai_response |-> JString(<<JsonText(JNumber(5))>>)]),
      JObject([actions |-> JAction("create")]),
      JObject([status |-> JString(<<Prose("ok")>>)]),
      TwoActions,
      JNumber(5),
      JNull }

AgentOutcomes ==
    {[kind |-> "ok", data |-> d] : d \in AgentPayloads}
    \cup {[kind |-> k, data |-> JNull] : k \in {"networkError", "notOk", "notJson"}}

\* the transcript services/testing/test.js sends to the actions service: a
\* transcript the pipeline returned (the texts are left out)
RecordedTranscript ==
    <<
       [speaker |-> "Rupesh", text |-> TextAt(1), start_ms |-> 1680, end_ms |-> 7200],
       [speaker |-> "Shrujan", text |-> TextAt(2), start_ms |-> 9040, end_ms |-> 9400],
       [speaker |-> "sujan", text |-> TextAt(3), start_ms |-> 9400, end_ms |-> 9760],
       [speaker |-> "Rupesh", text |-> TextAt(4), start_ms |-> 10240, end_ms |-> 28170],
       [speaker |-> "sujan", text |-> TextAt(5), start_ms |-> 30650, end_ms |-> 50810],
       [speaker |-> "Shrujan", text |-> TextAt(6), start_ms |-> 53060, end_ms |-> 66340],
       [speaker |-> "Rupesh", text |-> TextAt(7), start_ms |-> 67620, end_ms |-> 85300],
       [speaker |-> "Shrujan", text |-> TextAt(8), start_ms |-> 87860, end_ms |-> 110190],
       [speaker |-> "Rupesh", text |-> TextAt(9), start_ms |-> 111470, end_ms |-> 120990],
       [speaker |-> "Unknown Speaker 1", text |-> TextAt(10), start_ms |-> 120990, end_ms |-> 121310],
       [speaker |-> "wrick", text |-> TextAt(11), start_ms |-> 124510, end_ms |-> 147800],
       [speaker |-> "sujan", text |-> TextAt(12), start_ms |-> 149640, end_ms |-> 159890],
       [speaker |-> "Rupesh", text |-> TextAt(13), start_ms |-> 160770, end_ms |-> 188040],
       [speaker |-> "Shrujan", text |-> TextAt(14), start_ms |-> 188520, end_ms |-> 190680],
       [speaker |-> "sujan", text |-> TextAt(15), start_ms |-> 190680, end_ms |-> 191240],
       [speaker |-> "Rupesh", text |-> TextAt(16), start_ms |-> 192200, end_ms |-> 205880],
       [speaker |-> "Shrujan", text |-> TextAt(17), start_ms |-> 207880, end_ms |-> 217270],
       [speaker |-> "wrick", text |-> TextAt(18), start_ms |-> 220070, end_ms |-> 240970],
       [speaker |-> "Unknown Speaker 1", text |-> TextAt(19), start_ms |-> 240970, end_ms |-> 241570],
       [speaker |-> "Rupesh", text |-> TextAt(20), start_ms |-> 241570, end_ms |-> 248170],
       [speaker |-> "Unknown Speaker 1", text |-> TextAt(21), start_ms |-> 248170, end_ms |-> 248570],
       [speaker |-> "Rupesh", text |-> TextAt(22), start_ms |-> 249290, end_ms |-> 259650],
       [speaker |-> "Shrujan", text |-> TextAt(23), start_ms |-> 259650, end_ms |-> 281080],
       [speaker |-> "Rupesh", text |-> TextAt(24), start_ms |-> 282600, end_ms |-> 295800],
       [speaker |-> "Unknown Speaker 1", text |-> TextAt(25), start_ms |-> 295800, end_ms |-> 296160],
       [speaker |-> "Rupesh", text |-> TextAt(26), start_ms |-> 296640, end_ms |-> 306720],
       [speaker |-> "Unknown Speaker 1", text |-> TextAt(27), start_ms |-> 306720, end_ms |-> 307120],
       [speaker |-> "Rupesh", text |-> TextAt(28), start_ms |-> 310960, end_ms |-> 331990],
       [speaker |-> "sujan", text |-> TextAt(29), start_ms |-> 334630, end_ms |-> 350540],
       [speaker |-> "Rupesh", text |-> TextAt(30), start_ms |-> 353580, end_ms |-> 369280],
       [speaker |-> "Unknown Speaker 1", text |-> TextAt(31), start_ms |-> 369350, end_ms |-> 370630],
       [speaker |-> "Rupesh", text |-> TextAt(32), start_ms |-> 371270, end_ms |-> 378150],
       [speaker |-> "Unknown Speaker 1", text |-> TextAt(33), start_ms |-> 378150, end_ms |-> 378470],
       [speaker |-> "Rupesh", text |-> TextAt(34), start_ms |-> 379190, end_ms |-> 389350],
       [speaker |-> "Unknown Speaker 1", text |-> TextAt(35), start_ms |-> 389590, end_ms |-> 389990],
       [speaker |-> "Rupesh", text |-> TextAt(36), start_ms |-> 391030, end_ms |-> 400080],
       [speaker |-> "sujan", text |-> TextAt(37), start_ms |-> 402000, end_ms |-> 403760],
       [speaker |-> "Rupesh", text |-> TextAt(38), start_ms |-> 405440, end_ms |-> 408560],
       [speaker |-> "Shrujan", text |-> TextAt(39), start_ms |-> 410000, end_ms |-> 411840],
       [speaker |-> "Rupesh", text |-> TextAt(40), start_ms |-> 411840, end_ms |-> 420120],
       [speaker |-> "Unknown Speaker 1", text |-> TextAt(41), start_ms |-> 420120, end_ms |-> 420400],
       [speaker |-> "Rupesh", text |-> TextAt(42), start_ms |-> 422910, end_ms |-> 428590],
       [speaker |-> "Shrujan", text |-> TextAt(43), start_ms |-> 430350, end_ms |-> 430750],
       [speaker |-> "Rupesh", text |-> TextAt(44), start_ms |-> 431710, end_ms |-> 434750],
       [speaker |-> "Unknown Speaker 1", text |-> TextAt(45), start_ms |-> 437470, end_ms |-> 438470],
       [speaker |-> "sujan", text |-> TextAt(46), start_ms |-> 438470, end_ms |-> 440030],
       [speaker |-> "Rupesh", text |-> TextAt(47), start_ms |-> 440430, end_ms |-> 446270]
    >>

\* the meeting of the recorded transcript; which labels its names were
\* resolved from is not recorded
RecordedMeeting ==
    meetingDocument("m1",
        [teamId |-> "team1", meetingTitle |-> "Planning",
         transcript |-> RecordedTranscript, speakerMap |-> EmptyObject,
         unresolvedSpeakers |-> <<[label |-> "Unknown Speaker 1",
                                   audio_snippet_b64 |-> "b64-1"]>>,
         uploadedBy |-> "user1"])

\* meeting documents the route may find: saved results of the pipeline, the
\* recorded meeting, and documents written without a team or with an empty
\* transcript
ActionMeetings ==
    LET saved(r) == meetingDocument("m1",
                        [teamId |-> "team1", meetingTitle |-> "Standup",
                         transcript |-> r.transcript, speakerMap |-> r.speaker_map,
                         unresolvedSpeakers |-> r.unresolved_speakers,
                         uploadedBy |-> "user1"])
        docs == {saved(r) : r \in {x \in PipelineResults :
                                      Len(x.transcript) = MaxSegments
                                      /\ x.transcript[1].end_ms = 1
                                      /\ DOMAIN x.speaker_map = {"Speaker 1"}}}
    IN  docs \cup {[d EXCEPT !.teamId = ""] : d \in docs}
             \cup {[d EXCEPT !.transcript = <<>>] : d \in docs}
             \cup {RecordedMeeting}

TeamDocs ==
    { EmptyObject,
      [accessToken |-> "iv:cipher"],
      [spaceId |-> "space1"],
      [accessToken |-> "iv:cipher", spaceId |-> "space1"],
      [accessToken |-> "garbled", spaceId |-> "space1"] }

Envs ==
    { EmptyObject,
      [CLICKUP_SPACE_ID |-> "space-env"],
      [ACTIONS_SERVICE_URL |-> "http://actions"],
      [CLICKUP_SPACE_ID |-> "space-env", ACTIONS_SERVICE_URL |-> "http://actions"] }

ActionsInit ==
    /\ meetings \in {EmptyObject} \cup {("m1" :> d) : d \in ActionMeetings}
    /\ teams \in {EmptyObject} \cup {("team1" :> t) : t \in TeamDocs}
    /\ env \in Envs
    /\ response = NoResponse
    /\ agentCall = NotCalled
    /\ failures = 0
    /\ users = EmptyObject
    /\ upload = UploadIdle
    /\ transcribeCall = NotCalled
    /\ patches = NoPatches
    /\ page = PageUnmounted
    /\ inbox = NoInbox
    /\ pipeline = PipelineIdle

GenerateActions ==
    /\ \E meetingId \in {"m1", ""}, outcome \in AgentOutcomes,
          storeOk \in BOOLEAN, updateOk \in BOOLEAN :
            POST_generate_actions(meetingId, outcome, storeOk, updateOk)
    /\ failures' = IF response'.status # 200 /\ failures < MaxFailures
                   THEN failures + 1 ELSE failures
    /\ UNCHANGED <<teams, env, users, pipeline, patches, page, inbox, upload,
                   transcribeCall>>

SpecActions == ActionsInit /\ [][GenerateActions]_vars

----------------------------------------------------------------------------
(* The upload dialog: handleUpload, one action per awaited request *)

\* JSON.stringify(value) as the text of a form field
JSONstringify(value) == <<JsonText(value)>>

\* what the transcription service may answer for a set of enrolled names: a
\* result whose resolved names are enrolled, a failure status with a body,
\* no answer within the timeout, no connection, or a body that is no JSON
TranscriptionOutcomes(enrolled) ==
    {[kind |-> "ok", data |-> r, status |-> "200", body |-> <<>>,
      error |-> EmptyObject]
        : r \in {x \in PipelineResults : Range(x.speaker_map) \subseteq enrolled}}
    \cup {[kind |-> "notOk", data |-> EmptyObject, status |-> "500", body |-> b,
           error |-> EmptyObject]
        : b \in {<<"Internal", "Server", "Error">>,
                 <<"upstream", "timed", "out">>,
                 <<"model", "not", "configured">>}}
    \cup {[kind |-> "timeout", data |-> EmptyObject, status |-> "", body |-> <<>>,
           error |-> e] : e \in TimeoutRejections}
    \cup {[kind |-> k, data |-> EmptyObject, status |-> "", body |-> <<>>,
           error |-> EmptyObject] : k \in {"networkError", "notJson"}}

\* the document of the signed-in user (documents are numbered in the order
\* a query returns them)
Uploader == 1

\* a catch block without the finally: the processing flag stays set
uploadFailed_keepsProcessing(message) ==
    [upload EXCEPT !.pc = "idle", !.error = message,
                   !.teamId = "", !.voiceprints = EmptyObject,
                   !.processedData = EmptyObject]

\* catch (err) { setError(err.message) } finally { setIsProcessing(false) }
\* (teamId, voiceprints and processedData are locals of handleUpload and end
\* with it)
uploadFailed(message) ==
    [upload EXCEPT !.pc = "idle", !.error = message, !.isProcessing = FALSE,
                   !.teamId = "", !.voiceprints = EmptyObject,
                   !.processedData = EmptyObject]

\* handleFiles / the title input: the user picks a file and types a title
ChooseInputs ==
    /\ upload.pc = "idle"
    /\ \E file \in {[name |-> "standup.mp3", size |-> 1],
                    [name |-> "empty.mp3", size |-> 0]},
          title \in {"", "Standup"} :
        upload' = [upload EXCEPT !.selectedFile = file, !.meetingTitle = title]
    /\ UNCHANGED <<meetings, response, teams, env, agentCall, failures,
                   users, pipeline, patches, page, inbox, transcribeCall>>

\* handleUpload up to its first await (the model follows uploads while the
\* store has an id left for the meeting)
HandleUpload ==
    /\ upload.pc = "idle"
    /\ MeetingIds \ DOMAIN meetings # {}
    /\ upload' =
         IF upload.selectedFile = NoFile \/ upload.meetingTitle = ""
         THEN [upload EXCEPT !.error = "Please provide a title and select a file."]
         ELSE [upload EXCEPT !.isProcessing = TRUE, !.error = Null,
                             !.navigatedTo = Null, !.pc = "getUserDoc"]
    /\ UNCHANGED <<meetings, response, teams, env, agentCall, failures,
                   users, pipeline, patches, page, inbox, transcribeCall>>

\* await getDoc(userDocRef) and the check of the team
UploadGetUserDoc ==
    /\ upload.pc = "getUserDoc"
    /\ \E storeOk \in BOOLEAN :
        upload' =
          IF ~storeOk
          THEN uploadFailed("Failed to get document")
          ELSE IF Uploader \notin DOMAIN users \/ ~Truthy(users[Uploader].teamId)
          THEN uploadFailed("Could not find your team information. Please try again.")
          ELSE [upload EXCEPT !.teamId = users[Uploader].teamId,
                              !.pc = "fetchVoiceprints"]
    /\ UNCHANGED <<meetings, response, teams, env, agentCall, failures,
                   users, pipeline, patches, page, inbox, transcribeCall>>

\* await fetch(`/api/teams/${teamId}/voiceprints`) and the check of the answer
UploadFetchVoiceprints ==
    /\ upload.pc = "fetchVoiceprints"
    /\ \E storeOk \in BOOLEAN :
        LET voiceprintsRes == GET_voiceprints(upload.teamId, storeOk)
        IN  /\ response' = voiceprintsRes
            /\ upload' =
                 IF voiceprintsRes.status # 200
                 THEN uploadFailed("Could not fetch team voiceprints.")
                 ELSE [upload EXCEPT !.voiceprints = voiceprintsRes.body.voiceprints,
                                     !.pc = "transcribe"]
    /\ transcribeCall' = NotCalled
    /\ UNCHANGED <<meetings, teams, env, agentCall, failures, users,
                   pipeline, patches, page, inbox>>

\* await fetch('/api/transcribe-meeting') and the check of the answer
UploadTranscribe ==
    /\ upload.pc = "transcribe"
    /\ LET form == [audioFile   |-> upload.selectedFile,
                    voiceprints |-> JSONstringify(JObject(upload.voiceprints))]
       IN  \E outcome \in TranscriptionOutcomes(DOMAIN upload.voiceprints),
              version \in TranscribeVersions :
            LET processRes == transcribeResponseOf(version, form, outcome)
                sent       == transcribeRequestOf(version, form)
            IN  /\ response' = processRes
                /\ transcribeCall' =
                     IF sent.called THEN [sent EXCEPT !.outcome = outcome] ELSE sent
                /\ upload' =
                     IF processRes.status # 200
                     THEN uploadFailed("Failed to process the audio recording.")
                     ELSE [upload EXCEPT !.processedData = processRes.body,
                                         !.pc = "save"]
    /\ UNCHANGED <<meetings, teams, env, agentCall, failures, users,
                   pipeline, patches, page, inbox>>

\* await fetch('/api/meetings'), then handleClose() and router.push
UploadSave ==
    /\ upload.pc = "save"
    /\ \E storeOk \in BOOLEAN :
          POST_meetings(SaveBody(upload.teamId, upload.meetingTitle,
                                 upload.processedData), storeOk)
    /\ upload' =
         IF response'.status # 200
         THEN uploadFailed("Failed to save the meeting transcript.")
         ELSE [UploadIdle EXCEPT !.navigatedTo = response'.body.meetingId]
    /\ transcribeCall' = NotCalled
    /\ UNCHANGED <<teams, env, agentCall, failures, users, pipeline, patches,
                   page, inbox>>

\* the users of the store: the uploader with or without a team, and team
\* members with and without an enrolled voiceprint; a name is what its user
\* typed, so two members of a team may have the same one
UserStores ==
    LET user(teamId, name, voiceprint) ==
            [teamId |-> teamId, name |-> name, voiceprint |-> voiceprint]
    IN  { <<user("", "Ann", <<1>>)>>,
          <<user("team1", "Ann", <<>>)>>,
          <<user("team1", "Ann", <<1>>), user("team1", "Bob", <<>>)>>,
          <<user("team1", "Ann", <<1>>), user("team1", "Bob", <<2>>),
            user("team2", "Cy", <<3>>)>>,
          <<user("team1", "Ann", <<1>>), user("team1", "Ann", <<2>>)>> }

UploadInit ==
    /\ meetings = EmptyObject
    /\ response = NoResponse
    /\ teams = EmptyObject
    /\ env = EmptyObject
    /\ agentCall = NotCalled
    /\ failures = 0
    /\ users \in UserStores
    /\ upload = UploadIdle
    /\ transcribeCall = NotCalled
    /\ patches = NoPatches
    /\ page = PageUnmounted
    /\ inbox = NoInbox
    /\ pipeline = PipelineIdle

UploadNext ==
    \/ ChooseInputs
    \/ HandleUpload
    \/ UploadGetUserDoc
    \/ UploadFetchVoiceprints
    \/ UploadTranscribe
    \/ UploadSave

SpecUpload == UploadInit /\ [][UploadNext]_vars

----------------------------------------------------------------------------
(* Specification of saving: POST /api/meetings with any body a client may   *)
(* send, and saveMeetingToDB with any meeting data.                        *)

\* transcripts of up to MaxSegments utterances: utterance i starts at i - 1
\* and ends at any later time, so an earlier utterance may end last
AnyTranscripts ==
    UNION {
      { [i \in 1..n |->
            [speaker  |-> sp[i],
             text     |-> TextAt(i),
             start_ms |-> i - 1,
             end_ms   |-> e[i]]]
        : sp \in [1..n -> Labels],
          e \in {f \in [1..n -> 1..(MaxSegments + 1)] : \A i \in 1..n : f[i] >= i} }
      : n \in 0..MaxSegments }

\* speaker maps over the labels
AnySpeakerMaps == UNION {[ks -> Names] : ks \in SUBSET Labels}

\* lists of unresolved speakers over the labels
AnyUnresolved ==
    UNION { { [i \in DOMAIN ord |->
                 [label |-> ord[i], audio_snippet_b64 |-> SnippetOf(ord[i])]]
              : ord \in Orderings(ls) }
            : ls \in SUBSET Labels }

\* the MeetingData values saveMeetingToDB may be called with
AnyMeetingData ==
    {[teamId |-> "team1", meetingTitle |-> "Standup", transcript |-> t,
      speakerMap |-> sm, unresolvedSpeakers |-> un, uploadedBy |-> "user1"]
        : t \in AnyTranscripts, sm \in AnySpeakerMaps, un \in AnyUnresolved}

\* a body without some of its properties
Without(body, keys) == [k \in DOMAIN body \ keys |-> body[k]]

\* the bodies a client may send to POST /api/meetings: any meeting data, with
\* or without its speakerMap and unresolvedSpeakers
AnySaveBodies ==
    {Without(b, keys) : b \in AnyMeetingData,
                        keys \in SUBSET {"speakerMap", "unresolvedSpeakers"}}
    \cup {Without(b, {"teamId"}) : b \in {x \in AnyMeetingData :
                                             /\ Len(x.transcript) = 1
                                             /\ x.speakerMap = EmptyObject
                                             /\ x.unresolvedSpeakers = <<>>}}

\* the requests to the route: every body, and one request the store fails on
AnySaveRequests ==
    {[body |-> b, storeOk |-> TRUE] : b \in AnySaveBodies}
    \cup {[body |-> b, storeOk |-> FALSE]
            : b \in {x \in AnyMeetingData : /\ Len(x.transcript) = 1
                                            /\ x.speakerMap = EmptyObject
                                            /\ x.unresolvedSpeakers = <<>>}}

\* a request to the route (the model follows requests while the store has an
\* id left for the meeting)
PostMeeting ==
    /\ MeetingIds \ DOMAIN meetings # {}
    /\ \E req \in AnySaveRequests : POST_meetings(req.body, req.storeOk)
    /\ UNCHANGED <<teams, env, agentCall, failures, users, pipeline, patches,
                   page, inbox, upload, transcribeCall>>

\* a call of saveMeetingToDB
SaveToDB ==
    /\ \E meetingData \in AnyMeetingData, meetingId \in MeetingIds \ DOMAIN meetings :
          meetings' = Merge(meetings,
                            (meetingId :> meetingDocument(meetingId, meetingData)))
    /\ UNCHANGED <<response, teams, env, agentCall, failures, users,
                   pipeline, patches, page, inbox, upload, transcribeCall>>

SaveNext == PostMeeting \/ SaveToDB

SpecSave == StoreInit /\ [][SaveNext]_vars

----------------------------------------------------------------------------
(* Specification of concurrent resolution: two PATCH requests for the same  *)
(* meeting are in flight at once.  updateMeetingSpeakers reads the document *)
(* (await meetingRef.get()), computes the new fields from what it read and  *)
(* writes them (await meetingRef.update()); the requests of the other call  *)
(* may be served between the two awaits.                                    *)

\* the PATCH request of one caller, before the route has read anything
PatchCall(speakerResolutions) ==
    [pc |-> "start", speakerResolutions |-> speakerResolutions,
     meetingData |-> EmptyObject, status |-> 0]

\* the two requests: resolution maps that name different labels
PatchPairs ==
    UNION {{<<PatchCall(a), PatchCall(b)>> :
                a \in [{k} -> Names], b \in [Labels \ {k} -> Names]}
            : k \in Labels}

\* PATCH up to the first await of updateMeetingSpeakers: the document is read
PatchRead(i) ==
    /\ i \in DOMAIN patches.calls
    /\ patches.calls[i].pc = "start"
    /\ \E storeOk \in BOOLEAN :
          IF storeOk
          THEN /\ patches' = [patches EXCEPT !.calls[i].pc = "read",
                                  !.calls[i].meetingData = meetings["m1"]]
               /\ UNCHANGED response
          ELSE /\ patches' = [patches EXCEPT !.calls[i].pc = "done",
                                  !.calls[i].status = 500]
               /\ response' = Respond("PATCH /api/meetings/[meetingId]", 500,
                      [error   |-> "Failed to update speakers",
                       details |-> "Failed to update meeting speakers"])
    /\ UNCHANGED <<meetings, teams, env, agentCall, failures, users, upload,
                   transcribeCall, pipeline, page, inbox>>

\* the rest of PATCH: the fields computed from the document that was read are
\* written, and the route answers
PatchWrite(i) ==
    /\ i \in DOMAIN patches.calls
    /\ patches.calls[i].pc = "read"
    /\ meetings' = [meetings EXCEPT !["m1"] =
            Merge(@, speakerUpdate(patches.calls[i].meetingData,
                                   patches.calls[i].speakerResolutions))]
    /\ patches' = [patches EXCEPT !.calls[i].pc = "done",
                                  !.calls[i].status = 200]
    /\ response' = Respond("PATCH /api/meetings/[meetingId]", 200,
            [success |-> "true", message |-> "Speakers updated successfully"])
    /\ UNCHANGED <<teams, env, agentCall, failures, users, upload,
                   transcribeCall, pipeline, page, inbox>>

\* a meeting is stored, and two callers are about to resolve different labels
ConcurrentInit ==
    /\ \E r \in PipelineResults, calls \in PatchPairs :
          LET doc == meetingDocument("m1", SaveBody("team1", "Standup", r))
          IN  /\ meetings = ("m1" :> doc)
              /\ patches = [base |-> doc, calls |-> calls]
    /\ response = NoResponse
    /\ teams = EmptyObject
    /\ env = EmptyObject
    /\ agentCall = NotCalled
    /\ failures = 0
    /\ users = EmptyObject
    /\ upload = UploadIdle
    /\ transcribeCall = NotCalled
    /\ pipeline = PipelineIdle
    /\ page = PageUnmounted
    /\ inbox = NoInbox

ConcurrentNext == \E i \in 1..2 : PatchRead(i) \/ PatchWrite(i)

SpecConcurrent == ConcurrentInit /\ [][ConcurrentNext]_vars

----------------------------------------------------------------------------
(* Specification of the transcribe route under any form data: a client may  *)
(* leave out either field and may put any text in the voiceprints field.    *)

\* the values formData.get('voiceprints') may have when the field is there
VoiceprintTexts ==
    { <<>>,                                              \* ''
      <<Prose("voiceprints")>>,                          \* no JSON
      <<JsonText(JObject(EmptyObject)), Prose("x")>>,    \* JSON and more text
      <<JsonText(JNull)>>,
      <<JsonText(JNumber(5))>>,
      <<JsonText(JString(<<Prose("Ann")>>))>>,
      <<JsonText(JArray(<<>>))>>,
      <<JsonText(JObject(EmptyObject))>>,
      <<JsonText(JObject([n \in {"Ann"} |-> "b64-Ann"]))>>,
      <<JsonText(JObject([n \in Names |-> "b64"]))>> }

AudioFiles ==
    {[name |-> "standup.mp3", size |-> 1], [name |-> "empty.mp3", size |-> 0]}

\* every multipart form a client may send
AnyForms ==
    {EmptyObject}
    \cup {[audioFile |-> f] : f \in AudioFiles}
    \cup {[voiceprints |-> v] : v \in VoiceprintTexts}
    \cup {[audioFile |-> f, voiceprints |-> v] : f \in AudioFiles, v \in VoiceprintTexts}

\* the names of the voiceprints of a form, if its voiceprints are a map
EnrolledIn(form) ==
    IF /\ "voiceprints" \in DOMAIN form
       /\ CanParse(form.voiceprints)
       /\ JSONparse(form.voiceprints).type = "object"
    THEN DOMAIN JSONparse(form.voiceprints).props
    ELSE {}

\* the route serves the request
ServeTranscribe ==
    /\ inbox.version \in TranscribeVersions
    /\ ~inbox.served
    /\ \E outcome \in TranscriptionOutcomes(EnrolledIn(inbox.form)) :
          LET sent == transcribeRequestOf(inbox.version, inbox.form)
          IN  /\ response' = transcribeResponseOf(inbox.version, inbox.form, outcome)
              /\ transcribeCall' =
                    IF sent.called THEN [sent EXCEPT !.outcome = outcome] ELSE sent
    /\ inbox' = [inbox EXCEPT !.served = TRUE]
    /\ UNCHANGED <<meetings, teams, env, agentCall, failures, users, upload,
                   pipeline, patches, page>>

\* a request has arrived at either version of the route
TranscribeInit ==
    /\ inbox \in {[version |-> v, form |-> f, served |-> FALSE]
                    : v \in TranscribeVersions, f \in AnyForms}
    /\ meetings = EmptyObject
    /\ response = NoResponse
    /\ teams = EmptyObject
    /\ env = EmptyObject
    /\ agentCall = NotCalled
    /\ failures = 0
    /\ users = EmptyObject
    /\ upload = UploadIdle
    /\ transcribeCall = NotCalled
    /\ patches = NoPatches
    /\ page = PageUnmounted
    /\ pipeline = PipelineIdle

SpecTranscribe == TranscribeInit /\ [][ServeTranscribe]_vars

----------------------------------------------------------------------------
(* The meeting detail page: the snapshot listener and handleGenerateActions. *)
(* The repository holds two versions of the page: in one the listener stops *)
(* the loading state when it sees actions, in the other it only stores the  *)
(* document.                                                                 *)

PageVersions == {"listener", "plain"}

\* meeting.actions && meeting.actions.length > 0
hasActions(meeting) ==
    /\ "actions" \in DOMAIN meeting
    /\ meeting.actions.type = "array"
    /\ Len(meeting.actions.items) > 0

\* meeting.status === 'processing' || isGenerating
isProcessing(p) ==
    Get(p.meeting, "status") = "processing" \/ p.isGenerating

\* the page shows the main view and in it the 'AI is analyzing' block
Analyzing(p) ==
    /\ p.pc # "unmounted"
    /\ p.error = Null
    /\ isProcessing(p) /\ ~hasActions(p.meeting)

\* the Generate button is shown and enabled
CanGenerate(p) ==
    /\ p.pc = "idle"
    /\ p.error = Null
    /\ ~hasActions(p.meeting) /\ ~isProcessing(p)

\* handleGenerateActions up to the fetch
PageGenerate ==
    /\ CanGenerate(page)
    /\ page' = [page EXCEPT !.isGenerating = TRUE, !.error = Null,
                             !.pc = "requesting"]
    /\ UNCHANGED <<meetings, response, teams, env, agentCall, failures,
                   users, upload, transcribeCall, pipeline, patches, inbox>>

\* the route serves the request of the page; a write of the meeting document
\* will reach the listener
PageRouteAnswers ==
    /\ page.pc = "requesting"
    /\ \E outcome \in AgentOutcomes, storeOk \in BOOLEAN, updateOk \in BOOLEAN :
            POST_generate_actions("m1", outcome, storeOk, updateOk)
    /\ page' = [page EXCEPT !.pc = "answered",
                             !.snapshotPending = @ \/ meetings' # meetings]
    /\ UNCHANGED <<teams, env, failures, users, upload, transcribeCall,
                   pipeline, patches, inbox>>

\* the callback of onSnapshot
PageSnapshot ==
    /\ page.snapshotPending
    /\ page' = [page EXCEPT
            !.meeting = meetings["m1"],
            !.isGenerating = IF page.version = "listener" /\ hasActions(meetings["m1"])
                             THEN FALSE ELSE @,
            !.snapshotPending = FALSE]
    /\ UNCHANGED <<meetings, response, teams, env, agentCall, failures,
                   users, upload, transcribeCall, pipeline, patches, inbox>>

\* handleGenerateActions after the fetch
PageResponse ==
    /\ page.pc = "answered"
    /\ page' = IF response.status # 200
               THEN [page EXCEPT !.error = response.body.error,
                                 !.isGenerating = FALSE,
                                 !.pc = "idle", !.completed = TRUE]
               ELSE [page EXCEPT !.pc = "idle", !.completed = TRUE]
    /\ UNCHANGED <<meetings, response, teams, env, agentCall, failures,
                   users, upload, transcribeCall, pipeline, patches, inbox>>

\* the page is open on a stored meeting without actions and has received its
\* first snapshot
PageInit ==
    /\ meetings \in {("m1" :> d) : d \in ActionMeetings \ {RecordedMeeting}}
    /\ teams \in {EmptyObject} \cup {("team1" :> t) : t \in TeamDocs}
    /\ env \in Envs
    /\ page \in {[version |-> v, pc |-> "idle", meeting |-> meetings["m1"],
                   isGenerating |-> FALSE, error |-> Null,
                   snapshotPending |-> FALSE, completed |-> FALSE]
                    : v \in PageVersions}
    /\ response = NoResponse
    /\ agentCall = NotCalled
    /\ failures = 0
    /\ users = EmptyObject
    /\ upload = UploadIdle
    /\ transcribeCall = NotCalled
    /\ patches = NoPatches
    /\ pipeline = PipelineIdle
    /\ inbox = NoInbox

PageNext == PageGenerate \/ PageRouteAnswers \/ PageSnapshot \/ PageResponse

SpecPage == PageInit /\ [][PageNext]_vars

----------------------------------------------------------------------------
(* Properties of the resolution update (spec sections 3, 4.7 and 8) *)

\* the three fields a resolution update is specified over
ResolutionState(doc) ==
    <<doc.transcript, doc.speakerMap, doc.unresolvedSpeakers>>

\* C1: for every stored meeting and every resolution map, applying
\* updateMeetingSpeakers with the map twice leaves transcript, speakerMap and
\* unresolvedSpeakers as they are after applying it once.
C1_UpdateIdempotent ==
    \A id \in DOMAIN meetings : \A r \in ResolutionMaps :
        LET once  == updateMeetingSpeakers(meetings[id], r)
            twice == updateMeetingSpeakers(once, r)
        IN  ResolutionState(twice) = ResolutionState(once)

\* C2: after an update with map r, for every key k of r: each utterance that
\* was spoken by k is now spoken by r[k], no unresolved entry is labelled k,
\* and speakerMap[k] = r[k].
C2_EveryKeyResolved ==
    \A id \in DOMAIN meetings : \A r \in ResolutionMaps :
        LET before == meetings[id]
            after  == updateMeetingSpeakers(before, r)
        IN  \A k \in DOMAIN r :
              /\ \A i \in DOMAIN before.transcript :
                    before.transcript[i].speaker = k
                        => after.transcript[i].speaker = r[k]
              /\ k \notin LabelsOf(after.unresolvedSpeakers)
              /\ Get(after.speakerMap, k) = r[k]

\* C3: an update naming a label k that is not among the unresolved speakers
\* changes nothing about k: speakerMap has the same entry (or none) for k, the
\* utterances spoken by k are as they were, and so are the unresolved entries.
C3_UnknownLabelNoOp ==
    \A id \in DOMAIN meetings : \A r \in ResolutionMaps :
        LET before == meetings[id]
            after  == updateMeetingSpeakers(before, r)
        IN  \A k \in DOMAIN r :
              k \notin LabelsOf(before.unresolvedSpeakers) =>
                /\ Get(after.speakerMap, k) = Get(before.speakerMap, k)
                /\ \A i \in DOMAIN before.transcript :
                      before.transcript[i].speaker = k
                          => after.transcript[i] = before.transcript[i]
                /\ k \notin LabelsOf(after.unresolvedSpeakers)

\* C4: in every stored meeting the speakers of the transcript are exactly the
\* keys of speakerMap together with the labels of unresolvedSpeakers.
C4_Completeness ==
    \A id \in DOMAIN meetings :
        SpeakersOf(meetings[id].transcript)
            = DOMAIN meetings[id].speakerMap
                \cup LabelsOf(meetings[id].unresolvedSpeakers)

\* C5: in every stored meeting no label is both a key of speakerMap and the
\* label of an unresolved entry, and no two unresolved entries share a label.
C5_ResolvedXorUnresolved ==
    \A id \in DOMAIN meetings :
        LET doc == meetings[id]
        IN  /\ DOMAIN doc.speakerMap \cap LabelsOf(doc.unresolvedSpeakers) = {}
            /\ \A i, j \in DOMAIN doc.unresolvedSpeakers :
                  doc.unresolvedSpeakers[i].label = doc.unresolvedSpeakers[j].label
                      => i = j

\* C6: in every stored meeting speakerMap is injective: no two distinct labels
\* map to the same resolved name (a name being a non-empty string).
C6_SpeakerMapInjective ==
    \A id \in DOMAIN meetings :
        LET speakerMap == meetings[id].speakerMap
        IN  \A a, b \in DOMAIN speakerMap :
                (a # b /\ Truthy(speakerMap[a])) => speakerMap[a] # speakerMap[b]

----------------------------------------------------------------------------
(* Properties of action generation (spec sections 6 and 7) *)

\* the meeting and its team are set up for action generation
ReadyForActions(meetingId) ==
    /\ meetingId \in DOMAIN meetings
    /\ Truthy(meetings[meetingId].teamId)
    /\ Len(meetings[meetingId].transcript) > 0
    /\ meetings[meetingId].teamId \in DOMAIN teams
    /\ LET team == teams[meetings[meetingId].teamId]
       IN  /\ Get(team, "accessToken") = "iv:cipher"
           /\ Truthy(Get(team, "spaceId")) \/ Truthy(Get(env, "CLICKUP_SPACE_ID"))
    /\ Truthy(Get(env, "ACTIONS_SERVICE_URL"))

\* the payload of the microservice's answer is a list, or text that parses
\* as a list
IsListPayload(agentData) ==
    LET payload == extractedActions(agentData)
    IN  \/ payload.type = "array"
        \/ /\ payload.type = "string"
           /\ CanParse(cleanedResponse(payload.text))
           /\ JSONparse(cleanedResponse(payload.text)).type = "array"

\* C7: a generate-actions request that ends in a failure leaves every meeting
\* document as it was; and whatever the number of earlier failures, a request
\* for a meeting that is set up, answered with a list by the microservice, is
\* processed: it succeeds (or fails on the store alone) and then the meeting
\* holds the actions.
C7_FailedGenerationIsRetryable ==
    [][ /\ response'.status # 200 => meetings' = meetings
        /\ ( /\ ReadyForActions("m1")
             /\ agentCall'.called
             /\ agentCall'.outcome.kind = "ok"
             /\ IsListPayload(agentCall'.outcome.data)
             /\ response'.body # [error |-> "Failed to generate actions",
                                  details |-> "store unavailable"] )
           => /\ response'.status = 200
              /\ "actions" \in DOMAIN meetings'["m1"]
              /\ meetings'["m1"].status = "completed"
      ]_vars

\* C7 witness: after MaxFailures failed requests that left the transcript in
\* place, a request succeeded and stored its actions.
C7_Witness ==
    /\ failures = MaxFailures
    /\ response.route = GenerateRoute
    /\ response.status = 200
    /\ "m1" \in DOMAIN meetings
    /\ "actions" \in DOMAIN meetings["m1"]
    /\ Len(meetings["m1"].transcript) > 0

\* C8: when the microservice answers with a payload that is not a list, the
\* route reports an error and writes nothing to the meeting.
C8_NonListPayloadRejected ==
    [][ ( /\ agentCall'.called
          /\ agentCall'.outcome.kind = "ok"
          /\ ~IsListPayload(agentCall'.outcome.data) )
        => /\ response'.status # 200
           /\ meetings' = meetings
      ]_vars

\* C9: when the voiceprints of the team cannot be read during an upload, the
\* upload does not stop: it goes on to the transcription with an empty
\* enrolled set and shows no error.
C9_UploadSurvivesVoiceprintFailure ==
    [][ ( /\ upload.pc = "fetchVoiceprints"
          /\ response'.route = VoiceprintsRoute
          /\ response'.status = 500 )
        => /\ upload'.pc = "transcribe"
           /\ upload'.voiceprints = EmptyObject
           /\ upload'.error = Null
      ]_vars

\* C10: a request whose call to the transcription service runs into the
\* timeout is answered with status 504, a request that fails in another way
\* is answered with another status, and the upload of a request that ran
\* into the timeout writes no meeting.
C10_TimeoutReportedAs504 ==
    [][ /\ ( /\ upload.pc = "transcribe"
             /\ transcribeCall'.called
             /\ transcribeCall'.outcome.kind = "timeout" )
           => /\ response'.status = 504
              /\ meetings' = meetings
              /\ upload'.pc = "idle"
        /\ ( /\ upload.pc = "transcribe"
             /\ transcribeCall'.called
             /\ transcribeCall'.outcome.kind # "timeout" )
           => response'.status # 504
      ]_vars

----------------------------------------------------------------------------
(* Properties of the upload flow and of the transcribe route *)

\* C11: a failure of the transcription step ends the upload: the step that
\* gets a failure from /api/transcribe-meeting writes no meeting, shows the
\* error, clears the processing flag and leaves the dialog idle; the save
\* step is entered only by a transcription step that got status 200, and a
\* meeting is written only by the save step.
C11_TranscriptionFailureIsFatal ==
    [][ /\ ( /\ upload.pc = "transcribe"
             /\ response'.status # 200 )
           => /\ meetings' = meetings
              /\ upload'.pc = "idle"
              /\ upload'.error = "Failed to process the audio recording."
              /\ upload'.isProcessing = FALSE
        /\ ( upload'.pc = "save" /\ upload.pc # "save" )
           => /\ upload.pc = "transcribe"
              /\ response'.route = TranscribeRoute
              /\ response'.status = 200
        /\ meetings' # meetings => upload.pc = "save"
      ]_vars

\* C11 witness: an upload whose transcription request failed: nothing is
\* stored, the error is shown and the dialog is idle again.
C11_Witness ==
    /\ response.route = TranscribeRoute
    /\ response.status # 200
    /\ transcribeCall.called
    /\ upload.pc = "idle"
    /\ upload.error = "Failed to process the audio recording."
    /\ ~upload.isProcessing
    /\ meetings = EmptyObject

\* C12: an upload whose audio file has size 0 is answered with the
\* empty-audio error (status 400) and no request is sent to the
\* transcription service.
C12_EmptyAudioRejected ==
    [][ ( /\ upload.pc = "transcribe"
          /\ upload.selectedFile.size = 0 )
        => /\ ~transcribeCall'.called
           /\ response'.status = 400
           /\ response'.body = [message |-> "Audio file is empty."]
      ]_vars

\* C13: with an empty map of enrolled voiceprints the transcribe route sends
\* the request on to the service and passes its result back, and a result
\* with an empty speaker_map is saved as it is: the stored meeting has an
\* empty speakerMap and the result's unresolved speakers.
C13_EmptyVoiceprintMapAccepted ==
    [][ /\ ( /\ upload.pc = "transcribe"
             /\ upload.voiceprints = EmptyObject
             /\ upload.selectedFile.size # 0 )
           => /\ transcribeCall'.called
              /\ response'.status # 400
              /\ transcribeCall'.outcome.kind = "ok"
                    => /\ response'.status = 200
                       /\ upload'.pc = "save"
                       /\ upload'.processedData = transcribeCall'.outcome.data
        /\ ( /\ upload.pc = "save"
             /\ upload.processedData.speaker_map = EmptyObject
             /\ response'.status # 500 )
           => /\ response'.status = 200
              /\ \E id \in DOMAIN meetings' \ DOMAIN meetings :
                    /\ meetings'[id].speakerMap = EmptyObject
                    /\ meetings'[id].transcript = upload.processedData.transcript
                    /\ meetings'[id].unresolvedSpeakers =
                           upload.processedData.unresolved_speakers
                    /\ LabelsOf(meetings'[id].unresolvedSpeakers) =
                           SpeakersOf(meetings'[id].transcript)
      ]_vars

\* C13 witness: the team has no enrolled voiceprint and the upload ended with
\* a stored meeting whose speakers are all unresolved.
C13_Witness ==
    /\ fetchTeamVoiceprints("team1") = EmptyObject
    /\ response.route = "POST /api/meetings"
    /\ response.status = 200
    /\ upload.navigatedTo = "m1"
    /\ "m1" \in DOMAIN meetings
    /\ meetings["m1"].speakerMap = EmptyObject
    /\ Len(meetings["m1"].unresolvedSpeakers) > 0

----------------------------------------------------------------------------
(* Properties of saving (spec sections 3 and 4) *)

\* the largest number of a non-empty set of numbers
Max(S) == CHOOSE m \in S : \A x \in S : x <= m

\* C14: no stored meeting has an utterance whose speaker is neither a key of
\* its speakerMap nor the label of one of its unresolved speakers: a result
\* with such a label is not stored.
C14_InconsistentResultRejected ==
    \A id \in DOMAIN meetings :
        SpeakersOf(meetings[id].transcript)
            \subseteq (DOMAIN meetings[id].speakerMap
                        \cup LabelsOf(meetings[id].unresolvedSpeakers))

\* C15: the durationMs of a stored meeting is the largest end_ms of its
\* utterances, and 0 if it has no utterance.
C15_DurationIsMaxEnd ==
    \A id \in DOMAIN meetings :
        LET transcript == meetings[id].transcript
        IN  meetings[id].durationMs =
                IF Len(transcript) = 0 THEN 0
                ELSE Max({transcript[i].end_ms : i \in DOMAIN transcript})

\* C16: the totalSpeakers of a stored meeting is the number of distinct
\* resolved names plus the number of unresolved speakers, and its
\* totalSegments is the number of utterances.
C16_SpeakerAndSegmentCounts ==
    \A id \in DOMAIN meetings :
        /\ meetings[id].totalSpeakers =
               Cardinality(Range(meetings[id].speakerMap))
                   + Len(meetings[id].unresolvedSpeakers)
        /\ meetings[id].totalSegments = Len(meetings[id].transcript)

----------------------------------------------------------------------------
(* Properties of the responses of the routes *)

\* C17: the response of a successful PATCH carries the speaker map and the
\* unresolved speakers of the meeting (under either spelling of the two
\* names), equal to what the meeting holds after the update.
C17_PatchReturnsUpdatedPair ==
    [][ ( /\ response'.route = "PATCH /api/meetings/[meetingId]"
          /\ response'.status = 200 )
        => \E id \in DOMAIN meetings' :
              /\ \E k \in {"speakerMap", "speaker_map"} :
                    /\ k \in DOMAIN response'.body
                    /\ response'.body[k] = meetings'[id].speakerMap
              /\ \E k \in {"unresolvedSpeakers", "unresolved_speakers"} :
                    /\ k \in DOMAIN response'.body
                    /\ response'.body[k] = meetings'[id].unresolvedSpeakers
      ]_vars

\* C18: the status of a failed request to POST /api/transcribe-meeting tells
\* the cause: 504 when the call to the service ran into the timeout, 502 when
\* the service answered with a failure status (whatever the text of its
\* body), 500 for the other failures, and 503 for none of them (the service
\* URL has a default and is always configured); the response carries the
\* text of the cause.
C18_StatusIdentifiesCause ==
    [][ ( /\ upload.pc = "transcribe"
          /\ transcribeCall'.called
          /\ transcribeCall'.outcome.kind # "ok" )
        => /\ response'.status =
                 CASE transcribeCall'.outcome.kind = "timeout" -> 504
                   [] transcribeCall'.outcome.kind = "notOk"   -> 502
                   [] OTHER                                    -> 500
           /\ "error" \in DOMAIN response'.body
           /\ response'.body.error # <<>>
      ]_vars

----------------------------------------------------------------------------
(* Properties of the Segment Aligner (spec sections 4.4 and 8) *)

\* the utterance carries the text and the times of the segment
UtteranceOf(utterance, seg) ==
    /\ utterance.text = seg.text
    /\ utterance.start_ms = seg.start_ms
    /\ utterance.end_ms = seg.end_ms

\* C19: the segments the aligner has taken are the utterances, one for one
\* and in order, and when it has taken them all every segment is in exactly
\* one utterance; the utterance of a segment that overlaps some span has the
\* cluster of a span no other span overlaps the segment more than, and that
\* no span of the same overlap starts before.
C19_AlignmentKeepsAllAndMaxOverlap ==
    LET segments   == pipeline.segments
        spans      == pipeline.spans
        utterances == pipeline.utterances
    IN  /\ Len(utterances) <= Len(segments)
        /\ \A i \in DOMAIN utterances : UtteranceOf(utterances[i], segments[i])
        /\ Len(utterances) = Len(segments)
              => \A i \in DOMAIN segments :
                    Cardinality({j \in DOMAIN utterances :
                                    UtteranceOf(utterances[j], segments[i])}) = 1
        /\ \A i \in DOMAIN utterances :
              (\E k \in DOMAIN spans : overlap(segments[i], spans[k]) > 0)
              => \E k \in DOMAIN spans :
                    /\ utterances[i].speaker_label = spans[k].cluster_id
                    /\ \A m \in DOMAIN spans :
                          /\ overlap(segments[i], spans[m])
                                <= overlap(segments[i], spans[k])
                          /\ overlap(segments[i], spans[m])
                                = overlap(segments[i], spans[k])
                                => spans[k].start_ms <= spans[m].start_ms

\* C19 witness: a finished run in which two spans of different clusters
\* overlap a segment equally and the utterance has the cluster of the one
\* that starts first.
C19_Witness ==
    /\ Len(pipeline.segments) > 0
    /\ Len(pipeline.utterances) = Len(pipeline.segments)
    /\ \E i \in DOMAIN pipeline.segments : \E k, m \in DOMAIN pipeline.spans :
          /\ pipeline.spans[k].start_ms < pipeline.spans[m].start_ms
          /\ pipeline.spans[k].cluster_id # pipeline.spans[m].cluster_id
          /\ overlap(pipeline.segments[i], pipeline.spans[k]) > 0
          /\ overlap(pipeline.segments[i], pipeline.spans[k])
                = overlap(pipeline.segments[i], pipeline.spans[m])
          /\ pipeline.utterances[i].speaker_label = pipeline.spans[k].cluster_id

\* the labels reserved for segments that overlap no span
UnknownSpeakers == {UnknownSpeaker(n) : n \in 1..5}

----------------------------------------------------------------------------
(* Properties of the Voiceprint Matcher (spec sections 4.5, 8 and 9) *)

\* C21: in every state of a run of the matcher no name is assigned to two
\* clusters, every assigned pair is at or above the threshold, and each
\* step takes a pair no remaining pair exceeds; when the run is done every
\* cluster is either in speaker_map or unresolved, never both, and no
\* unresolved cluster has a pair at or above the threshold with a name that
\* is still free.
C21_GreedyMatchingIsInjective ==
    LET similarity  == pipeline.similarity
        speaker_map == pipeline.speaker_map
    IN  /\ \A a, b \in DOMAIN speaker_map :
              a # b => speaker_map[a] # speaker_map[b]
        /\ \A c \in DOMAIN speaker_map :
              /\ speaker_map[c] \in pipeline.enrolled
              /\ similarity[<<c, speaker_map[c]>>] >= Threshold
        /\ \A c, d \in DOMAIN speaker_map :
              \/ similarity[<<d, speaker_map[c]>>] <= similarity[<<c, speaker_map[c]>>]
              \/ similarity[<<c, speaker_map[d]>>] <= similarity[<<d, speaker_map[d]>>]
        /\ pipeline.done
              => /\ DOMAIN speaker_map \cup pipeline.unresolved = pipeline.clusters
                 /\ DOMAIN speaker_map \cap pipeline.unresolved = {}
                 /\ \A c \in pipeline.unresolved :
                       \A n \in pipeline.enrolled \ Range(speaker_map) :
                          similarity[<<c, n>>] < Threshold
                 /\ \A c \in pipeline.unresolved : \A d \in DOMAIN speaker_map :
                       similarity[<<c, speaker_map[d]>>]
                            <= similarity[<<d, speaker_map[d]>>]

\* C21 witness: a finished run in which two clusters were closest to one
\* name above the threshold: the closer one has the name and the other one
\* is unresolved.
C21_Witness ==
    /\ pipeline.done
    /\ \E c \in DOMAIN pipeline.speaker_map : \E d \in pipeline.unresolved :
          /\ pipeline.similarity[<<d, pipeline.speaker_map[c]>>] >= Threshold
          /\ pipeline.similarity[<<d, pipeline.speaker_map[c]>>]
                < pipeline.similarity[<<c, pipeline.speaker_map[c]>>]

\* the stored fields after the resolution maps of the two calls are applied
\* to the document one after the other
SerialResolution(first, second) ==
    ResolutionState(
        updateMeetingSpeakers(
            updateMeetingSpeakers(patches.base,
                                  patches.calls[first].speakerResolutions),
            patches.calls[second].speakerResolutions))

BothResolved ==
    /\ Len(patches.calls) = 2
    /\ \A i \in 1..2 : patches.calls[i].pc = "done" /\ patches.calls[i].status = 200

\* C22: when two concurrent resolution updates of one meeting that name
\* different labels have both completed, the stored transcript, speakerMap
\* and unresolvedSpeakers are those of applying the two updates one after
\* the other in some order.
C22_ConcurrentUpdatesBothTakeEffect ==
    BothResolved
        => ResolutionState(meetings["m1"])
              \in {SerialResolution(1, 2), SerialResolution(2, 1)}

\* the entries of a list of unresolved speakers whose label is no key of r
NotNamed(unresolvedSpeakers, r) ==
    LET other(speaker) == speaker.label \notin DOMAIN r
    IN  SelectSeq(unresolvedSpeakers, other)

\* C23: a resolution update with map r keeps the number and the order of the
\* utterances and the text, start_ms and end_ms of each; an utterance whose
\* speaker is no key of r keeps its speaker; the unresolved entries whose
\* label is no key of r are kept as they are, in order, with their snippet.
C23_UpdateChangesOnlyWhatItNames ==
    \A id \in DOMAIN meetings : \A r \in ResolutionMaps :
        LET before == meetings[id]
            after  == updateMeetingSpeakers(before, r)
        IN  /\ Len(after.transcript) = Len(before.transcript)
            /\ \A i \in DOMAIN before.transcript :
                  /\ after.transcript[i].text = before.transcript[i].text
                  /\ after.transcript[i].start_ms = before.transcript[i].start_ms
                  /\ after.transcript[i].end_ms = before.transcript[i].end_ms
                  /\ before.transcript[i].speaker \notin DOMAIN r
                        => after.transcript[i].speaker = before.transcript[i].speaker
            /\ NotNamed(after.unresolvedSpeakers, r)
                  = NotNamed(before.unresolvedSpeakers, r)

\* C23 witness: a PATCH has resolved one label of a stored meeting whose
\* transcript also has an utterance of another label that is still listed
\* as unresolved.
C23_Witness ==
    /\ response.route = "PATCH /api/meetings/[meetingId]"
    /\ response.status = 200
    /\ \E id \in DOMAIN meetings :
          LET doc == meetings[id]
          IN  /\ \E k \in DOMAIN doc.speakerMap \cap Labels :
                    /\ doc.speakerMap[k] \in Names
                    /\ k \notin SpeakersOf(doc.transcript)
              /\ \E l \in LabelsOf(doc.unresolvedSpeakers) :
                    l \in SpeakersOf(doc.transcript)

\* C24: in every stored meeting, after the save and after any resolution
\* updates, unresolvedCount is the number of entries of unresolvedSpeakers.
C24_UnresolvedCountIsLength ==
    \A id \in DOMAIN meetings :
        meetings[id].unresolvedCount = Len(meetings[id].unresolvedSpeakers)

\* C24 witness: a PATCH has taken a label off the unresolved list of a stored
\* meeting: the label has a name in speakerMap, no utterance carries it any
\* more, and the list is shorter than the number of labels.
C24_Witness ==
    /\ response.route = "PATCH /api/meetings/[meetingId]"
    /\ response.status = 200
    /\ \E id \in DOMAIN meetings :
          LET doc == meetings[id]
          IN  \E k \in DOMAIN doc.speakerMap \cap Labels :
                /\ doc.speakerMap[k] \in Names
                /\ k \notin SpeakersOf(doc.transcript)
                /\ k \notin LabelsOf(doc.unresolvedSpeakers)
                /\ doc.speakerMap[k] \in SpeakersOf(doc.transcript)
                /\ doc.unresolvedCount < Cardinality(Labels)

\* C25: in every stored meeting, after the save and after any resolution
\* updates, totalSpeakers is the number of keys of speakerMap.
C25_TotalSpeakersIsMapSize ==
    \A id \in DOMAIN meetings :
        meetings[id].totalSpeakers = Cardinality(DOMAIN meetings[id].speakerMap)

\* the meeting a generate-actions response is about: the route answers
\* 'Meeting ID is required' to a request without an id
RequestedMeeting(resp) ==
    IF resp.body = [error |-> "Meeting ID is required"] THEN "" ELSE "m1"

\* the preconditions of the call: the meeting exists, has a teamId and a
\* non-empty transcript, the team exists, and an access token and a space ID
\* are configured
ListedPreconditions(meetingId) ==
    /\ meetingId \in DOMAIN meetings
    /\ Truthy(meetings[meetingId].teamId)
    /\ Len(meetings[meetingId].transcript) > 0
    /\ meetings[meetingId].teamId \in DOMAIN teams
    /\ LET team == teams[meetings[meetingId].teamId]
       IN  /\ Truthy(Get(team, "accessToken"))
           /\ Truthy(Get(team, "spaceId")) \/ Truthy(Get(env, "CLICKUP_SPACE_ID"))

\* the meeting or its team is missing
MissingDocument(meetingId) ==
    \/ meetingId \notin DOMAIN meetings
    \/ meetings[meetingId].teamId \notin DOMAIN teams

\* a precondition other than the existence of the two documents is missing
MissingOther(meetingId) ==
    \/ meetingId = ""
    \/ /\ meetingId \in DOMAIN meetings
       /\ \/ ~Truthy(meetings[meetingId].teamId)
          \/ Len(meetings[meetingId].transcript) = 0
          \/ /\ meetings[meetingId].teamId \in DOMAIN teams
             /\ LET team == teams[meetings[meetingId].teamId]
                IN  \/ ~Truthy(Get(team, "accessToken"))
                    \/ ~(Truthy(Get(team, "spaceId"))
                           \/ Truthy(Get(env, "CLICKUP_SPACE_ID")))

\* the answer the claim gives for a missing precondition: 404 only when a
\* document is missing, 400 only when something else is, no call, no write
RefusedAsClientError(meetingId) ==
    /\ response'.status \in {400, 404}
    /\ response'.status = 404 => MissingDocument(meetingId)
    /\ response'.status = 400 => MissingOther(meetingId)
    /\ ~agentCall'.called
    /\ meetings' = meetings

\* C26 as stated: the route calls the actions microservice only when the
\* meeting exists, has a teamId and a non-empty transcript, the team exists
\* and a token and a space ID are available; in every other case it answers
\* 404 (meeting or team missing) or 400 (another precondition missing),
\* calls nothing and leaves the meeting as it is.
C26_EveryOtherCaseIs4xx ==
    [][ response'.route = GenerateRoute =>
          LET meetingId == RequestedMeeting(response')
          IN  /\ agentCall'.called => ListedPreconditions(meetingId)
              /\ ~ListedPreconditions(meetingId) => RefusedAsClientError(meetingId)
      ]_vars

\* the route could not read the store: it answered from its catch block
\* before any call
StoreReadFailed ==
    /\ response'.body = [error   |-> "Failed to generate actions",
                         details |-> "store unavailable"]
    /\ ~agentCall'.called

\* C26 amended: the route calls the microservice only when the listed
\* preconditions hold, the token decrypts and ACTIONS_SERVICE_URL is set.
\* When a listed precondition is missing and the store answers, the route
\* answers 404 or 400 as stated.  When the store cannot be read, the token
\* does not decrypt or ACTIONS_SERVICE_URL is not set it answers 500.  In
\* none of these cases is the microservice called or the meeting written.
C26_RefusalsAre4xxOr500 ==
    [][ response'.route = GenerateRoute =>
          LET meetingId == RequestedMeeting(response')
          IN  /\ agentCall'.called => ReadyForActions(meetingId)
              /\ ~agentCall'.called => meetings' = meetings
              /\ (~ListedPreconditions(meetingId) /\ ~StoreReadFailed)
                    => RefusedAsClientError(meetingId)
              /\ ( \/ StoreReadFailed
                   \/ ListedPreconditions(meetingId) /\ ~ReadyForActions(meetingId) )
                    => response'.status = 500 /\ ~agentCall'.called
      ]_vars

\* C26 witness: a request for a meeting that is not stored was answered 500
\* because the store could not be read; nothing was called or written.
C26_Witness ==
    /\ response.route = GenerateRoute
    /\ response.status = 500
    /\ response.body.details = "store unavailable"
    /\ ~agentCall.called
    /\ "m1" \notin DOMAIN meetings

\* the fields action generation may write
ActionFields == {"actions", "status", "updatedAt"}

\* C27: a generate-actions request, whatever its outcome, leaves every field
\* of every meeting other than actions, status and updatedAt as it was (so
\* the transcript, speakerMap, unresolvedSpeakers and the counts derived from
\* them), removes no meeting and adds none; a request that succeeds sets
\* status to 'completed' and stores the actions it answers with.
C27_GenerationKeepsSpeakerData ==
    [][ response'.route = GenerateRoute =>
          /\ DOMAIN meetings' = DOMAIN meetings
          /\ \A id \in DOMAIN meetings :
                /\ DOMAIN meetings'[id] \subseteq DOMAIN meetings[id] \cup ActionFields
                /\ \A field \in DOMAIN meetings[id] \ ActionFields :
                      /\ field \in DOMAIN meetings'[id]
                      /\ meetings'[id][field] = meetings[id][field]
          /\ response'.status = 200
                => /\ meetings'["m1"].status = "completed"
                   /\ meetings'["m1"].actions = response'.body.actions
      ]_vars

\* C27 witness: a request succeeded for a meeting that has a transcript, a
\* resolved speaker and an unresolved one; the meeting now holds actions.
C27_Witness ==
    /\ response.route = GenerateRoute
    /\ response.status = 200
    /\ "m1" \in DOMAIN meetings
    /\ "actions" \in DOMAIN meetings["m1"]
    /\ Len(meetings["m1"].actions.items) > 0
    /\ Len(meetings["m1"].transcript) > 0
    /\ meetings["m1"].totalSpeakers > 0
    /\ meetings["m1"].unresolvedCount > 0

\* the request of the page has completed and the page has handled every
\* event it caused: nothing more will happen unless the user acts
PageSettled ==
    page.completed /\ page.pc = "idle" /\ ~page.snapshotPending

\* C28: once the action-generation request of the page has completed (with
\* a failure, or with success and any list of actions, the empty list
\* included) and the page has handled the response and the snapshot of the
\* meeting, the page no longer shows 'AI is analyzing'.
C28_PageLeavesAnalyzing ==
    PageSettled => ~Analyzing(page)

\* the form carries an audio file and a voiceprints field whose text parses
\* as JSON to a non-null object (typeof 'object': an object or an array)
WellFormed(form) ==
    /\ "audioFile" \in DOMAIN form
    /\ "voiceprints" \in DOMAIN form
    /\ CanParse(form.voiceprints)
    /\ JSONparse(form.voiceprints).type \in {"object", "array"}

\* C29: the transcribe route sends a request to the transcription service
\* only for a form with an audio file and a voiceprints field that parses as
\* a JSON object; a form that lacks either field, or whose voiceprints are
\* no valid JSON or no non-null object, is answered 400 and the service is
\* not called.
C29_MalformedFormsAnswered400 ==
    inbox.served
        => /\ transcribeCall.called => WellFormed(inbox.form)
           /\ ~WellFormed(inbox.form)
                 => response.status = 400 /\ ~transcribeCall.called

\* the users of a team whose voiceprint is a non-empty array
EnrolledUsers(teamId) ==
    {u \in DOMAIN users : users[u].teamId = teamId /\ Len(users[u].voiceprint) > 0}

\* C30: the map the voiceprints route answers with has one entry for each
\* enrolled user of the team, holding that user's voiceprint, and no other
\* entry; count is the number of enrolled users of the team.
C30_OneEntryPerEnrolledUser ==
    (response.route = VoiceprintsRoute /\ response.status = 200)
        => LET voiceprints == response.body.voiceprints
               enrolled    == EnrolledUsers(upload.teamId)
           IN  /\ \A u \in enrolled :
                     /\ users[u].name \in DOMAIN voiceprints
                     /\ voiceprints[users[u].name]
                            = floatArrayToBase64(users[u].voiceprint)
               /\ \A n \in DOMAIN voiceprints :
                     \E u \in enrolled : users[u].name = n
               /\ response.body.count = Cardinality(enrolled)

============================================================================
